---- MODULE Spec2Model ----
(***************************************************************************)
(* Model of the golem client-side rendering engine:                        *)
(*   - dom/vdom.go      : VNode trees, VirtualDOM.Diff and VirtualDOM.Patch *)
(*   - dom/vdom.go      : Scheduler (Schedule, flushWork, processUpdates)   *)
(*   - state/reactive.go: Observable (Set / Update / Subscribe), Component  *)
(***************************************************************************)
EXTENDS Integers, Sequences, FiniteSets, TLC

VARIABLES
    oldTree,    \* first argument of VirtualDOM.Diff (the committed tree), or Nil
    newTree,    \* second argument of VirtualDOM.Diff (the fresh render), or Nil
    pc,         \* position of the render pipeline: "start" -> "diffed" -> "again" -> "patched"
    diffs,      \* []Diff returned by the first call of Diff(oldTree, newTree)
    diffs2,     \* []Diff returned by a second call of Diff(oldTree, newTree)
    panicked,   \* TRUE when a call dereferenced a nil *VNode (Go runtime panic)
    elems,      \* the live document: handle -> [tag, attrs, children, parent]
    jsElement,  \* the VNode pointers whose JSElement is defined
    obsValue,   \* Observable.value
    observers,  \* Observable.observers: the subscriptions, in slice order
    subIndex,   \* subIndex[s]: the index captured by the unsubscribe closure of subscription s
    frames,     \* frames[c]: the Set/Update calls in progress on context c, innermost last
    seen,       \* seen[s]: the <<newValue, oldValue>> pairs observer s was invoked with
    calls,      \* the Set/Update calls made so far: value written, value held before, subscriptions
    active,     \* the execution contexts that call into the Observable
    mutex,      \* Observable.mutex: Free, or the context that holds it
    critical,   \* critical[c]: the Update of c that is inside its critical section
    reentrant,  \* the subscriptions whose callback calls back into the Observable
    UpdateQueue,    \* Scheduler.UpdateQueue: the scheduled nodes, oldest first
    IsScheduled,    \* Scheduler.IsScheduled
    Priority,       \* Scheduler.Priority
    IsDirty,        \* IsDirty[n]: VNode.IsDirty of node n
    slots,          \* the callbacks requested from the host and not run yet, oldest first
    flushPc,        \* processUpdates: "idle" (not running), "loop" or "render"
    current,        \* the node renderComponent is running for
    pendingAtStart, \* UpdateQueue as it was when the latest processUpdates began
    rendered,       \* the nodes renderComponent was called for by the latest processUpdates
    late,           \* the nodes scheduled while the latest processUpdates was running
    popped,         \* the number of entries the latest processUpdates took off the queue
    seenPriorities, \* the priorities of the Schedule calls since processUpdates last returned
    nSchedules,     \* the number of Schedule calls made so far
    inSchedule,     \* inSchedule[c]: the Schedule call that context c is in the middle of
    accepted,       \* the nodes whose Schedule call appended them and no flush has taken yet
    mounted,        \* Component.mounted
    stateSubs,      \* the subscriptions made by Component.UseState
    renders,        \* the calls of Component.render so far: the API call each ran inside
    storeState,     \* Store.state: the map from slice key to the state of the slice
    storeReducers,  \* Store.reducers: the map from slice key to its reducer
    storeObservers, \* Store.observers: the map from slice key to its subscriber list
    storeMiddleware,\* Store.middleware
    storeSubs,      \* storeSubs[s]: the key and index captured by the unsubscribe closure of s
    storeFrames,    \* the Dispatch calls in progress, innermost last
    nDispatch,      \* the number of Dispatch calls made so far
    computed,       \* the Computed the application created, if any
    functions,      \* Registry.functions: the map from "service.function" to its FunctionMeta
    registered,     \* the keys of the RegisterFunction calls that returned nil
    result          \* what the last call on the Registry returned

domVars == <<oldTree, newTree, pc, diffs, diffs2, panicked, elems, jsElement>>

obsVars == <<obsValue, observers, subIndex, frames, seen, calls, active, mutex, critical,
            reentrant>>

schedVars == <<UpdateQueue, IsScheduled, Priority, IsDirty, slots, flushPc, current,
              pendingAtStart, rendered, late, popped, seenPriorities, nSchedules,
              inSchedule, accepted>>

compVars == <<mounted, stateSubs, renders>>

storeVars == <<storeState, storeReducers, storeObservers, storeMiddleware, storeSubs,
              storeFrames, nDispatch>>

computedVars == <<computed>>

registryVars == <<functions, registered, result>>

vars == <<domVars, obsVars, schedVars, compVars, storeVars, computedVars, registryVars>>

(***************************************************************************)
(* Bounds of the model                                                     *)
(***************************************************************************)
MaxChildren == 3

MaxSubs == 2

MaxCalls == 2

MaxSchedules == 3

MaxStoreSubs == 3

MaxMiddleware == 2

MaxDispatch == 2

(***************************************************************************)
(* VNode (dom/vdom.go:12-21).  Prop values are strings; a nil *VNode is    *)
(* the record Nil.                                                         *)
(***************************************************************************)
Nil == [Type |-> "<nil>", Props |-> <<>>, Children |-> <<>>, Key |-> ""]

Types == {"div", "span"}

PropNames == {"key", "id"}

\* CreateVNode: the key is extracted from props["key"] when present.
CreateVNode(nodeType, props, children) ==
    [Type     |-> nodeType,
     Props    |-> props,
     Children |-> children,
     Key      |-> IF "key" \in DOMAIN props THEN props["key"] ELSE ""]

\* map literal helpers: a Go map is a function on the set of its keys
EmptyMap == <<>>

MapPut(m, k, v) == [x \in (DOMAIN m) \cup {k} |-> IF x = k THEN v ELSE m[x]]

(***************************************************************************)
(* Diff records (dom/vdom.go:38-55).  OldNode / NewNode are pointers: a    *)
(* pointer is the tree it points into and the path of the node in it.      *)
(***************************************************************************)
DiffCreate  == "DiffCreate"
DiffUpdate  == "DiffUpdate"
DiffRemove  == "DiffRemove"
DiffReplace == "DiffReplace"
DiffReorder == "DiffReorder"
NilPanic    == "panic: nil pointer dereference"

NilRef == [tree |-> "nil", path |-> <<>>]
OldRef(p) == [tree |-> "old", path |-> p]
NewRef(p) == [tree |-> "new", path |-> p]

\* The removal tombstone diffProps stores for a removed prop (Go nil).
Tombstone == "<removed>"

MkDiff(t, o, n, i, p) == [Type |-> t, OldNode |-> o, NewNode |-> n, Index |-> i, Props |-> p]

(***************************************************************************)
(* VirtualDOM.Diff (dom/vdom.go:110-297).  `ord` is the order in which a   *)
(* Go `range` over a map visits the prop names during this call.           *)
(***************************************************************************)
IsNil(n) == n.Type = Nil.Type

RECURSIVE diffPropsChanged_NoCompare(_, _, _, _)
\* variant of diffPropsChanged: the reflect.DeepEqual test is missing
diffPropsChanged_NoCompare(changes, keys, oldProps, newProps) ==
    IF keys = <<>> THEN changes
    ELSE LET key == Head(keys) IN
         IF key \in DOMAIN newProps
         THEN diffPropsChanged_NoCompare(MapPut(changes, key, newProps[key]), Tail(keys),
                                         oldProps, newProps)
         ELSE diffPropsChanged_NoCompare(changes, Tail(keys), oldProps, newProps)

RECURSIVE diffPropsChanged(_, _, _, _)
\* first loop of diffProps: changed or added props
diffPropsChanged(changes, keys, oldProps, newProps) ==
    IF keys = <<>> THEN changes
    ELSE LET key == Head(keys) IN
         IF key \in DOMAIN newProps
            /\ (key \notin DOMAIN oldProps \/ oldProps[key] # newProps[key])
         THEN diffPropsChanged(MapPut(changes, key, newProps[key]), Tail(keys), oldProps, newProps)
         ELSE diffPropsChanged(changes, Tail(keys), oldProps, newProps)

RECURSIVE diffPropsRemoved(_, _, _, _)
\* second loop of diffProps: removed props are marked with nil
diffPropsRemoved(changes, keys, oldProps, newProps) ==
    IF keys = <<>> THEN changes
    ELSE LET key == Head(keys) IN
         IF key \in DOMAIN oldProps /\ key \notin DOMAIN newProps
         THEN diffPropsRemoved(MapPut(changes, key, Tombstone), Tail(keys), oldProps, newProps)
         ELSE diffPropsRemoved(changes, Tail(keys), oldProps, newProps)

\* variant of diffProps: the "removed props" loop is missing
diffProps_NoRemoved(oldProps, newProps, ord) ==
    diffPropsChanged(EmptyMap, ord, oldProps, newProps)

\* variant of diffProps: stops at the first difference the range meets
diffProps_FirstOnly(oldProps, newProps, ord) ==
    LET all  == diffPropsRemoved(diffPropsChanged(EmptyMap, ord, oldProps, newProps),
                                 ord, oldProps, newProps)
        hits == SelectSeq(ord, LAMBDA k : k \in DOMAIN all)
    IN  IF hits = <<>> THEN EmptyMap ELSE [k \in {Head(hits)} |-> all[k]]

diffProps(oldProps, newProps, ord) ==
    diffPropsRemoved(diffPropsChanged(EmptyMap, ord, oldProps, newProps), ord, oldProps, newProps)

\* hasKeys: some non-nil child carries a key
hasKeys(children) ==
    \E i \in 1..Len(children) : ~IsNil(children[i]) /\ children[i].Key # ""

RECURSIVE buildKeyMap_FirstWins(_, _, _)
\* variant of the "Build key maps" loops: a key already in the map is kept
buildKeyMap_FirstWins(m, children, i) ==
    IF i > Len(children) THEN m
    ELSE IF ~IsNil(children[i]) /\ children[i].Key # "" /\ children[i].Key \notin DOMAIN m
         THEN buildKeyMap_FirstWins(MapPut(m, children[i].Key, i - 1), children, i + 1)
         ELSE buildKeyMap_FirstWins(m, children, i + 1)

RECURSIVE buildKeyMap(_, _, _)
\* the "Build key maps" loops: key -> 0-based index, later siblings overwrite
buildKeyMap(m, children, i) ==
    IF i > Len(children) THEN m
    ELSE IF ~IsNil(children[i]) /\ children[i].Key # ""
         THEN buildKeyMap(MapPut(m, children[i].Key, i - 1), children, i + 1)
         ELSE buildKeyMap(m, children, i + 1)

\* moves[newIndex] = old index of the matched key, -1 when there is none
movesOf(oldChildren, newChildren) ==
    LET oldKeyMap == buildKeyMap(EmptyMap, oldChildren, 1) IN
    [j \in 1..Len(newChildren) |->
        IF ~IsNil(newChildren[j]) /\ newChildren[j].Key # ""
           /\ newChildren[j].Key \in DOMAIN oldKeyMap
        THEN oldKeyMap[newChildren[j].Key]
        ELSE -1]

RECURSIVE needsReorderFrom_NoSkip(_, _, _)
\* variant of the needsReorder loop: unmatched entries (-1) are not skipped
needsReorderFrom_NoSkip(moves, i, lastIndex) ==
    IF i > Len(moves) THEN FALSE
    ELSE IF moves[i] < lastIndex THEN TRUE
         ELSE needsReorderFrom_NoSkip(moves, i + 1, moves[i])

RECURSIVE needsReorderFrom(_, _, _)
needsReorderFrom(moves, i, lastIndex) ==
    IF i > Len(moves) THEN FALSE
    ELSE IF moves[i] # -1
         THEN IF moves[i] < lastIndex THEN TRUE
              ELSE needsReorderFrom(moves, i + 1, moves[i])
         ELSE needsReorderFrom(moves, i + 1, lastIndex)

needsReorder(moves) == needsReorderFrom(moves, 1, -1)

RECURSIVE removedKeyed_Inverted(_, _, _, _)
\* variant of the removal loop: the `!exists` test lost its negation
removedKeyed_Inverted(oldChildren, newKeyMap, i, op) ==
    IF i > Len(oldChildren) THEN <<>>
    ELSE (IF ~IsNil(oldChildren[i]) /\ oldChildren[i].Key # ""
             /\ oldChildren[i].Key \in DOMAIN newKeyMap
          THEN <<MkDiff(DiffRemove, OldRef(Append(op, i)), NilRef, i - 1, EmptyMap)>>
          ELSE <<>>)
         \o removedKeyed_Inverted(oldChildren, newKeyMap, i + 1, op)

RECURSIVE removedKeyed(_, _, _, _)
\* the "Handle removed nodes" loop of diffChildrenWithKeys
removedKeyed(oldChildren, newKeyMap, i, op) ==
    IF i > Len(oldChildren) THEN <<>>
    ELSE (IF ~IsNil(oldChildren[i]) /\ oldChildren[i].Key # ""
             /\ oldChildren[i].Key \notin DOMAIN newKeyMap
          THEN <<MkDiff(DiffRemove, OldRef(Append(op, i)), NilRef, i - 1, EmptyMap)>>
          ELSE <<>>)
         \o removedKeyed(oldChildren, newKeyMap, i + 1, op)

RECURSIVE diffRecursive(_, _, _, _, _, _)
RECURSIVE diffByIndex(_, _, _, _, _, _)
RECURSIVE matchKeyed(_, _, _, _, _, _, _)

\* diffChildrenWithKeys: matches, then the reorder, then the removals
diffChildrenWithKeys(oldChildren, newChildren, parentIndex, op, np, ord) ==
    LET oldKeyMap == buildKeyMap(EmptyMap, oldChildren, 1)
        newKeyMap == buildKeyMap(EmptyMap, newChildren, 1)
        moves     == movesOf(oldChildren, newChildren)
    IN  matchKeyed(oldChildren, newChildren, oldKeyMap, 1, op, np, ord)
        \o (IF needsReorder(moves)
            THEN <<MkDiff(DiffReorder, NilRef, NilRef, parentIndex, EmptyMap)>>
            ELSE <<>>)
        \o removedKeyed(oldChildren, newKeyMap, 1, op)

\* diffChildren: by index when no child on either side has a key
diffChildren(oldChildren, newChildren, parentIndex, op, np, ord) ==
    IF ~hasKeys(oldChildren) /\ ~hasKeys(newChildren)
    THEN diffByIndex(oldChildren, newChildren, 0, op, np, ord)
    ELSE diffChildrenWithKeys(oldChildren, newChildren, parentIndex, op, np, ord)

\* the "Find matching keys" loop of diffChildrenWithKeys, from new child j on
matchKeyed(oldChildren, newChildren, oldKeyMap, j, op, np, ord) ==
    IF j > Len(newChildren) THEN <<>>
    ELSE LET newChild == newChildren[j] IN
         (IF ~IsNil(newChild) /\ newChild.Key # ""
          THEN IF newChild.Key \in DOMAIN oldKeyMap
               THEN LET oldIndex == oldKeyMap[newChild.Key] IN
                    diffRecursive(oldChildren[oldIndex + 1], newChild, j - 1,
                                  Append(op, oldIndex + 1), Append(np, j), ord)
               ELSE <<MkDiff(DiffCreate, NilRef, NewRef(Append(np, j)), j - 1, EmptyMap)>>
          ELSE <<>>)
         \o matchKeyed(oldChildren, newChildren, oldKeyMap, j + 1, op, np, ord)

\* variant of the index loop: it runs to len(oldChildren) instead of maxLen
diffByIndex_OldLen(oldChildren, newChildren, i, op, np, ord) ==
    IF i >= Len(oldChildren) THEN <<>>
    ELSE LET oldChild == oldChildren[i + 1]
             newChild == IF i < Len(newChildren) THEN newChildren[i + 1] ELSE Nil
         IN  diffRecursive(oldChild, newChild, i, Append(op, i + 1), Append(np, i + 1), ord)
             \o diffByIndex(oldChildren, newChildren, i + 1, op, np, ord)

\* the index loop of diffChildren, from index i (0-based) on
diffByIndex(oldChildren, newChildren, i, op, np, ord) ==
    LET maxLen == IF Len(newChildren) > Len(oldChildren)
                  THEN Len(newChildren) ELSE Len(oldChildren)
    IN  IF i >= maxLen THEN <<>>
        ELSE LET oldChild == IF i < Len(oldChildren) THEN oldChildren[i + 1] ELSE Nil
                 newChild == IF i < Len(newChildren) THEN newChildren[i + 1] ELSE Nil
             IN  diffRecursive(oldChild, newChild, i, Append(op, i + 1), Append(np, i + 1), ord)
                 \o diffByIndex(oldChildren, newChildren, i + 1, op, np, ord)

\* variant of diffRecursive: the return after the Replace is missing
diffRecursive_NoReturn(oldNode, newNode, index, op, np, ord) ==
    IF ~IsNil(oldNode) /\ IsNil(newNode)
    THEN <<MkDiff(DiffRemove, OldRef(op), NilRef, index, EmptyMap)>>
    ELSE IF IsNil(oldNode) /\ ~IsNil(newNode)
    THEN <<MkDiff(DiffCreate, NilRef, NewRef(np), index, EmptyMap)>>
    ELSE IF IsNil(oldNode)
    THEN <<MkDiff(NilPanic, NilRef, NilRef, index, EmptyMap)>>
    ELSE LET propDiffs == diffProps(oldNode.Props, newNode.Props, ord) IN
         (IF oldNode.Type # newNode.Type
          THEN <<MkDiff(DiffReplace, OldRef(op), NewRef(np), index, EmptyMap)>>
          ELSE IF DOMAIN propDiffs # {}
          THEN <<MkDiff(DiffUpdate, OldRef(op), NewRef(np), index, propDiffs)>>
          ELSE <<>>)
         \o diffChildren(oldNode.Children, newNode.Children, index, op, np, ord)

\* diffRecursive: op / np are the paths of oldNode / newNode in their trees
diffRecursive(oldNode, newNode, index, op, np, ord) ==
    IF ~IsNil(oldNode) /\ IsNil(newNode)
    THEN <<MkDiff(DiffRemove, OldRef(op), NilRef, index, EmptyMap)>>
    ELSE IF IsNil(oldNode) /\ ~IsNil(newNode)
    THEN <<MkDiff(DiffCreate, NilRef, NewRef(np), index, EmptyMap)>>
    ELSE IF IsNil(oldNode)
    THEN <<MkDiff(NilPanic, NilRef, NilRef, index, EmptyMap)>>  \* oldNode.Type on a nil pointer
    ELSE IF oldNode.Type # newNode.Type
    THEN <<MkDiff(DiffReplace, OldRef(op), NewRef(np), index, EmptyMap)>>
    ELSE LET propDiffs == diffProps(oldNode.Props, newNode.Props, ord) IN
         (IF DOMAIN propDiffs # {}
          THEN <<MkDiff(DiffUpdate, OldRef(op), NewRef(np), index, propDiffs)>>
          ELSE <<>>)
         \o diffChildren(oldNode.Children, newNode.Children, index, op, np, ord)

\* the operations appended before the first nil dereference, and whether one happened
Panics(ops) == \E i \in 1..Len(ops) : ops[i].Type = NilPanic

Diff(old, new, ord) == diffRecursive(old, new, 0, <<>>, <<>>, ord)

(***************************************************************************)
(* The live document behind syscall/js, and VirtualDOM.Patch               *)
(* (dom/vdom.go:299-394).  A handle is the pointer of the VNode whose      *)
(* createElement allocated the element; Mount is the container element.    *)
(* st = [elems, js]: the live elements and the set of VNode pointers with  *)
(* a defined JSElement.                                                    *)
(***************************************************************************)
Mount == [tree |-> "mount", path |-> <<>>]

NoParent == NilRef

\* names setProperty assigns as element properties; every other name is an attribute
DomProperties == {"className", "textContent", "innerHTML", "value", "checked", "disabled"}

NewElement(tag) ==
    [tag |-> tag, attrs |-> EmptyMap, properties |-> EmptyMap, children |-> <<>>, parent |-> NoParent]

MapDel(m, k) == [x \in (DOMAIN m) \ {k} |-> m[x]]

SeqWithout(s, x) == SelectSeq(s, LAMBDA y : y # x)

\* setProperty (dom/vdom.go:372-394) on element h
setProperty(els, h, name, value) ==
    IF name \in DomProperties
    THEN [els EXCEPT ![h].properties = MapPut(@, name, value)]
    ELSE IF value = Tombstone
         THEN [els EXCEPT ![h].attrs = MapDel(@, name)]
         ELSE [els EXCEPT ![h].attrs = MapPut(@, name, value)]

RECURSIVE setProperties(_, _, _, _)
setProperties(els, h, props, names) ==
    IF names = <<>> THEN els
    ELSE IF Head(names) \in DOMAIN props
         THEN setProperties(setProperty(els, h, Head(names), props[Head(names)]),
                            h, props, Tail(names))
         ELSE setProperties(els, h, props, Tail(names))

\* Node.removeChild / detaching a node from its current parent
Detach(els, h) ==
    IF els[h].parent = NoParent THEN els
    ELSE [els EXCEPT ![els[h].parent].children = SeqWithout(@, h), ![h].parent = NoParent]

\* Node.appendChild: a node that already has a parent is moved
appendChild(els, parent, h) ==
    LET d == Detach(els, h) IN
    [d EXCEPT ![parent].children = Append(@, h), ![h].parent = parent]

\* Node.replaceChild(newEl, oldEl) on parent
replaceChild(els, parent, newEl, oldEl) ==
    LET d == Detach(els, newEl) IN
    [d EXCEPT ![parent].children = [i \in DOMAIN @ |-> IF @[i] = oldEl THEN newEl ELSE @[i]],
              ![newEl].parent = parent,
              ![oldEl].parent = NoParent]

RECURSIVE NodeAt(_, _)
\* the VNode a path points to
NodeAt(tree, path) ==
    IF path = <<>> THEN tree ELSE NodeAt(tree.Children[Head(path)], Tail(path))

RECURSIVE createElement(_, _, _, _)
RECURSIVE createChildren(_, _, _, _, _)

\* createElement: allocates the element of vnode (pointer ref) and of its subtree
createElement(st, vnode, ref, ord) ==
    IF ref \in st.js THEN st
    ELSE LET made == [x \in (DOMAIN st.elems) \cup {ref} |->
                         IF x = ref THEN NewElement(vnode.Type) ELSE st.elems[x]]
             set  == setProperties(made, ref, vnode.Props, ord)
         IN  createChildren([elems |-> set, js |-> st.js \cup {ref}], vnode, ref, 1, ord)

\* the "Create children" loop of createElement, from child i on
createChildren(st, vnode, ref, i, ord) ==
    IF i > Len(vnode.Children) THEN st
    ELSE LET cref == [tree |-> ref.tree, path |-> Append(ref.path, i)]
             c    == createElement(st, vnode.Children[i], cref, ord)
         IN  createChildren([elems |-> appendChild(c.elems, ref, cref), js |-> c.js],
                            vnode, ref, i + 1, ord)

\* updateElement: sets the changed props on vnode.JSElement when it is defined
updateElement(st, ref, propChanges, ord) ==
    IF ref \in st.js
    THEN [st EXCEPT !.elems = setProperties(@, ref, propChanges, ord)]
    ELSE st

\* removeElement: removes vnode.JSElement from its parent
removeElement(st, ref) ==
    IF ref \in st.js /\ st.elems[ref].parent # NoParent
    THEN [st EXCEPT !.elems = Detach(@, ref)]
    ELSE st

\* replaceElement: creates newNode, then substitutes it for oldNode.JSElement
replaceElement(st, oldRef, newRef, newNode, ord) ==
    LET c == createElement(st, newNode, newRef, ord) IN
    IF oldRef \in c.js /\ c.elems[oldRef].parent # NoParent
    THEN [c EXCEPT !.elems = replaceChild(@, c.elems[oldRef].parent, newRef, oldRef)]
    ELSE c

\* reorderChildren: the body is empty
reorderChildren(st, oldRef, newRef) == st

RECURSIVE Patch(_, _, _, _, _)
\* Patch: applies the operations in order, from operation i on
Patch(st, ops, i, new, ord) ==
    IF i > Len(ops) THEN st
    ELSE LET d == ops[i] IN
         Patch(CASE d.Type = DiffCreate  -> createElement(st, NodeAt(new, d.NewNode.path), d.NewNode, ord)
                 [] d.Type = DiffUpdate  -> updateElement(st, d.NewNode, d.Props, ord)
                 [] d.Type = DiffRemove  -> removeElement(st, d.OldNode)
                 [] d.Type = DiffReplace -> replaceElement(st, d.OldNode, d.NewNode,
                                                           NodeAt(new, d.NewNode.path), ord)
                 [] d.Type = DiffReorder -> reorderChildren(st, d.OldNode, d.NewNode)
                 [] OTHER                -> st,
               ops, i + 1, new, ord)

\* the initial mount: the committed tree is created and appended to the container
MountTree(old, ord) ==
    LET empty == [elems |-> [x \in {Mount} |-> NewElement("#mount")], js |-> {}] IN
    IF IsNil(old) THEN empty
    ELSE LET c == createElement(empty, old, OldRef(<<>>), ord) IN
         [elems |-> appendChild(c.elems, Mount, OldRef(<<>>)), js |-> c.js]

RECURSIVE Observe(_, _)
\* what the live tree under handle h shows: type, props and child order
Observe(els, h) ==
    [Type     |-> els[h].tag,
     Props    |-> [n \in (DOMAIN els[h].attrs) \cup (DOMAIN els[h].properties) |->
                      IF n \in DOMAIN els[h].attrs THEN els[h].attrs[n] ELSE els[h].properties[n]],
     Children |-> [i \in 1..Len(els[h].children) |-> Observe(els, els[h].children[i])]]

RECURSIVE View(_)
\* type, props and child order of a VNode tree
View(n) ==
    [Type |-> n.Type, Props |-> n.Props,
     Children |-> [i \in 1..Len(n.Children) |-> View(n.Children[i])]]

(***************************************************************************)
(* Observable (state/reactive.go:15-85, the js/wasm build)                 *)
(***************************************************************************)
Contexts == {"main", "worker"}

Values == {0, 1, 2}

\* the functions handed to Update
UpdateFns == {"inc", "zero"}

Apply(updateFn, v) == IF updateFn = "inc" THEN v + 1 ELSE 0

\* NewObservable(initialValue)
NewObservable(initialValue) == [value |-> initialValue, observers |-> <<>>]

\* sync.RWMutex: the zero value is an unlocked mutex
Free == "free"

\* variant of Lock: the caller does not wait for the holder
Lock_NoWait(m) == TRUE

\* o.mutex.Lock() / o.mutex.RLock() return only when no writer holds the mutex
Lock(m) == m = Free

\* no Update of the context is between o.mutex.Lock() and o.mutex.Unlock()
NoFn == "none"

NotCritical == [fn |-> NoFn, oldValue |-> 0, waiting |-> FALSE]

\* variant of Set's critical section: the old value is read after the write
SetLocked_ReadAfterWrite(value, obs, newValue) ==
    [value |-> newValue, newValue |-> newValue, oldValue |-> newValue, observers |-> obs]

\* the critical section of Set: read the old value, write the new one, copy the observers
SetLocked(value, obs, newValue) ==
    [value |-> newValue, newValue |-> newValue, oldValue |-> value, observers |-> obs]

\* the critical section of Update: the new value is updateFn(oldValue)
UpdateLocked(value, obs, updateFn) ==
    [value |-> Apply(updateFn, value), newValue |-> Apply(updateFn, value),
     oldValue |-> value, observers |-> obs]

\* the notification loop of call number id: the copied observers and the next one to invoke
Frame(r, id) ==
    [newValue |-> r.newValue, oldValue |-> r.oldValue, observers |-> r.observers,
     next |-> 1, id |-> id]

\* the entry of the call history for a critical section r of Set ("set") or of
\* Update (its updateFn)
Call(r, live, op) ==
    [new |-> r.newValue, old |-> r.oldValue, subs |-> live, invoked |-> <<>>, op |-> op]

Idle(c) == frames[c] = <<>>

Top(c) == frames[c][Len(frames[c])]

\* variant of the notification loop: it ranges over o.observers itself
PassObservers_Live(f, live) == live

\* the slice the notification loop of a call ranges over: the copy made under the lock
PassObservers(f, live) == f.observers

\* the observer whose callback is executing on c
Running(c) == Top(c).observers[Top(c).next - 1]

\* the Update calls that hold the mutex or wait for it inside their critical section
InUpdate == {c \in Contexts : critical[c].fn # NoFn}

\* user code is executing on c: the application between two calls, or the
\* callback of a subscriber that calls back into the Observable
Caller(c) ==
    /\ c \in active
    /\ critical[c].fn = NoFn
    /\ IF Idle(c) THEN TRUE
       ELSE IF Top(c).next > 1 THEN Running(c) \in reentrant
       ELSE FALSE

\* o.observers[:index] ++ o.observers[index+1:]
RemoveAt(obs, index) ==
    [i \in 1..(Len(obs) - 1) |-> IF i <= index THEN obs[i] ELSE obs[i + 1]]

\* unsub := o.Subscribe(observer): appends the observer and captures its index;
\* re tells whether the observer's callback calls back into the Observable
Subscribe(c, re) ==
    /\ Caller(c)
    /\ Lock(mutex)
    /\ Len(subIndex) < MaxSubs
    /\ observers' = Append(observers, Len(subIndex) + 1)
    /\ subIndex' = Append(subIndex, Len(observers))
    /\ seen' = Append(seen, <<>>)
    /\ reentrant' = IF re THEN reentrant \cup {Len(subIndex) + 1} ELSE reentrant
    /\ UNCHANGED <<obsValue, frames, calls, active, mutex, critical>>
    /\ UNCHANGED <<domVars, schedVars, compVars, storeVars, computedVars, registryVars>>

\* the closure returned by Subscribe for subscription s
Unsubscribe(c, s) ==
    /\ Caller(c)
    /\ Lock(mutex)
    /\ s \in 1..Len(subIndex)
    /\ observers' = IF subIndex[s] < Len(observers)
                    THEN RemoveAt(observers, subIndex[s])
                    ELSE observers
    /\ UNCHANGED <<obsValue, subIndex, frames, seen, calls, active, mutex, critical, reentrant>>
    /\ UNCHANGED <<domVars, schedVars, compVars, storeVars, computedVars, registryVars>>

\* o.Set(newValue) up to the release of the mutex
Set(c, newValue) ==
    /\ Caller(c)
    /\ Lock(mutex)
    /\ Len(calls) + Cardinality(InUpdate) < MaxCalls
    /\ \E r \in {SetLocked(obsValue, observers, newValue)} :
          /\ obsValue' = r.value
          /\ frames' = [frames EXCEPT ![c] = Append(@, Frame(r, Len(calls) + 1))]
          /\ calls' = Append(calls, Call(r, observers, "set"))
    /\ UNCHANGED <<observers, subIndex, seen, active, mutex, critical, reentrant>>
    /\ UNCHANGED <<domVars, schedVars, compVars, storeVars, computedVars, registryVars>>

\* o.Update(updateFn) up to the release of the mutex, for an updateFn that
\* does not call into the Observable
Update(c, updateFn) ==
    /\ Caller(c)
    /\ Lock(mutex)
    /\ Len(calls) + Cardinality(InUpdate) < MaxCalls
    /\ \E r \in {UpdateLocked(obsValue, observers, updateFn)} :
          /\ obsValue' = r.value
          /\ frames' = [frames EXCEPT ![c] = Append(@, Frame(r, Len(calls) + 1))]
          /\ calls' = Append(calls, Call(r, observers, updateFn))
    /\ UNCHANGED <<observers, subIndex, seen, active, mutex, critical, reentrant>>
    /\ UNCHANGED <<domVars, schedVars, compVars, storeVars, computedVars, registryVars>>

\* o.Update(updateFn) up to the call of updateFn: the mutex is taken, the
\* old value is read and updateFn(oldValue) starts to run
UpdateBegin(c, updateFn) ==
    /\ Caller(c)
    /\ Lock(mutex)
    /\ Len(calls) + Cardinality(InUpdate) < MaxCalls
    /\ mutex' = c
    /\ critical' = [critical EXCEPT ![c] =
                        [fn |-> updateFn, oldValue |-> obsValue, waiting |-> FALSE]]
    /\ UNCHANGED <<obsValue, observers, subIndex, frames, seen, calls, active, reentrant>>
    /\ UNCHANGED <<domVars, schedVars, compVars, storeVars, computedVars, registryVars>>

\* updateFn calls o.Get(): RLock waits for the writer, which is the caller itself
UpdateFnGet(c) ==
    /\ c \in active
    /\ critical[c].fn # NoFn
    /\ ~critical[c].waiting
    /\ ~Lock(mutex)
    /\ critical' = [critical EXCEPT ![c].waiting = TRUE]
    /\ UNCHANGED <<obsValue, observers, subIndex, frames, seen, calls, active, mutex, reentrant>>
    /\ UNCHANGED <<domVars, schedVars, compVars, storeVars, computedVars, registryVars>>

\* updateFn returns: the new value is written, the observers are copied and
\* the mutex is released
UpdateEnd(c) ==
    /\ c \in active
    /\ critical[c].fn # NoFn
    /\ ~critical[c].waiting
    /\ \E r \in {UpdateLocked(critical[c].oldValue, observers, critical[c].fn)} :
          /\ obsValue' = r.value
          /\ frames' = [frames EXCEPT ![c] = Append(@, Frame(r, Len(calls) + 1))]
          /\ calls' = Append(calls, Call(r, observers, critical[c].fn))
    /\ mutex' = Free
    /\ critical' = [critical EXCEPT ![c] = NotCritical]
    /\ UNCHANGED <<observers, subIndex, seen, active, reentrant>>
    /\ UNCHANGED <<domVars, schedVars, compVars, storeVars, computedVars, registryVars>>

\* variant of rerender: the render function is not called
rerender_Deferred(isMounted, log, caller) == log

\* c.rerender(): a mounted component calls its render function; caller is the
\* API call on whose stack this happens
rerender(isMounted, log, caller) == IF isMounted THEN Append(log, caller) ELSE log

\* c.UseState(key, initialValue) for a new key: the Observable is created and
\* the component subscribes an observer that calls c.rerender() when mounted
UseState(c) ==
    /\ Caller(c)
    /\ Lock(mutex)
    /\ Len(subIndex) < MaxSubs
    /\ stateSubs = {}
    /\ observers = <<>>
    /\ calls = <<>>
    /\ observers' = Append(observers, Len(subIndex) + 1)
    /\ subIndex' = Append(subIndex, Len(observers))
    /\ seen' = Append(seen, <<>>)
    /\ stateSubs' = stateSubs \cup {Len(subIndex) + 1}
    /\ UNCHANGED <<obsValue, frames, calls, active, mutex, critical, reentrant>>
    /\ UNCHANGED <<mounted, renders>>
    /\ UNCHANGED <<domVars, schedVars, storeVars, computedVars, registryVars>>

\* c.Mount(selector): the component is mounted and rendered
ComponentMount(c) ==
    /\ Caller(c)
    /\ ~mounted
    /\ mounted' = TRUE
    /\ renders' = rerender(TRUE, renders, "Mount")
    /\ UNCHANGED stateSubs
    /\ UNCHANGED <<domVars, obsVars, schedVars, storeVars, computedVars, registryVars>>

\* NewComponent(renderFn)
NewComponent ==
    /\ mounted = FALSE
    /\ stateSubs = {}
    /\ renders = <<>>

\* no Computed has been created: dep is the kind of the dependency given to
\* NewComputed, "any" for an *Observable[interface{}], "int" for an
\* *Observable[int], "store" for a *Store; sub is the subscription NewComputed
\* made on the Observable (0 if none); observers is the number of observers
\* of the Computed, subscribedAt what Get returned when it subscribed, and
\* seen the (newValue, oldValue) pairs it was called with
NoComputed ==
    [dep |-> "none", value |-> <<>>, sub |-> 0, observers |-> 0, subscribedAt |-> <<>>,
     seen |-> <<>>]

\* the dependencies the application declares
ComputedDeps == {"any", "int", "store"}

\* computeFn(): twice the value of the Observable, or the state of slice "a"
\* of the Store, according to the dependency
computeFn(dep) ==
    IF dep = "store"
    THEN IF "a" \in DOMAIN storeState THEN <<storeState["a"]>> ELSE <<>>
    ELSE <<2 * obsValue>>

\* whether the type switch of NewComputed subscribes to a dependency of
\* this kind
SubscribesTo(dep) == dep = "any"

\* computed.recompute(), called by the observer NewComputed subscribed
recompute ==
    [computed EXCEPT !.value = computeFn(computed.dep),
                     !.seen = IF computed.observers > 0
                              THEN Append(@, <<computeFn(computed.dep), computed.value>>)
                              ELSE @]

\* NewComputed(computeFn, dep); a Computed over the Store reads a slice that
\* has been registered
NewComputed(c, dep) ==
    /\ Caller(c)
    /\ Idle(c)
    /\ storeFrames = <<>>
    /\ computed.dep = "none"
    /\ dep = "store" => "a" \in DOMAIN storeReducers
    /\ IF SubscribesTo(dep)
       THEN /\ Len(subIndex) < MaxSubs
            /\ observers' = Append(observers, Len(subIndex) + 1)
            /\ subIndex' = Append(subIndex, Len(observers))
            /\ seen' = Append(seen, <<>>)
            /\ computed' = [computed EXCEPT !.dep = dep, !.value = computeFn(dep),
                                            !.sub = Len(subIndex) + 1]
       ELSE /\ computed' = [computed EXCEPT !.dep = dep, !.value = computeFn(dep)]
            /\ UNCHANGED <<observers, subIndex, seen>>
    /\ UNCHANGED <<obsValue, frames, calls, active, mutex, critical, reentrant>>
    /\ UNCHANGED <<domVars, schedVars, compVars, storeVars, registryVars>>

\* computed.Subscribe(observer), by an observer that has called Get
ComputedSubscribe(c) ==
    /\ Caller(c)
    /\ Idle(c)
    /\ storeFrames = <<>>
    /\ computed.dep # "none"
    /\ computed.observers = 0
    /\ computed' = [computed EXCEPT !.observers = 1, !.subscribedAt = computed.value]
    /\ UNCHANGED <<domVars, obsVars, schedVars, compVars, storeVars, registryVars>>

\* one iteration of the notification loop: observer(newValue, oldValue)
Notify(c) ==
    /\ c \in active
    /\ ~Idle(c)
    /\ \E obs \in {PassObservers(Top(c), observers)} :
          /\ Top(c).next <= Len(obs)
          /\ seen' = [seen EXCEPT ![obs[Top(c).next]] =
                          Append(@, <<Top(c).newValue, Top(c).oldValue>>)]
          /\ calls' = [calls EXCEPT ![Top(c).id].invoked = Append(@, obs[Top(c).next])]
          /\ renders' = IF obs[Top(c).next] \in stateSubs
                        THEN rerender(mounted, renders, calls[Top(c).id].op)
                        ELSE renders
          /\ computed' = IF obs[Top(c).next] = computed.sub
                         THEN recompute
                         ELSE computed
    /\ frames' = [frames EXCEPT ![c][Len(frames[c])].next = @ + 1]
    /\ UNCHANGED <<obsValue, observers, subIndex, active, mutex, critical, reentrant>>
    /\ UNCHANGED <<mounted, stateSubs>>
    /\ UNCHANGED <<domVars, schedVars, storeVars, registryVars>>

\* the notification loop is over and Set / Update returns
Return(c) ==
    /\ c \in active
    /\ ~Idle(c)
    /\ Top(c).next > Len(PassObservers(Top(c), observers))
    /\ frames' = [frames EXCEPT ![c] = SubSeq(@, 1, Len(@) - 1)]
    /\ UNCHANGED <<obsValue, observers, subIndex, seen, calls, active, mutex, critical, reentrant>>
    /\ UNCHANGED <<domVars, schedVars, compVars, storeVars, computedVars, registryVars>>

\* o := NewObservable(0), used by the given contexts
ObservableInit(ctxs) ==
    /\ obsValue = NewObservable(0).value
    /\ observers = NewObservable(0).observers
    /\ subIndex = <<>>
    /\ frames = [c \in Contexts |-> <<>>]
    /\ seen = <<>>
    /\ calls = <<>>
    /\ active = ctxs
    /\ mutex = Free
    /\ critical = [c \in Contexts |-> NotCritical]
    /\ reentrant = {}

(***************************************************************************)
(* Scheduler (dom/vdom.go:64-79, 396-444)                                  *)
(***************************************************************************)
ImmediatePriority == 0

UserBlockingPriority == 1

NormalPriority == 2

LowPriority == 3

IdlePriority == 4

Priorities ==
    {ImmediatePriority, UserBlockingPriority, NormalPriority, LowPriority, IdlePriority}

\* the components that are scheduled: *VNode pointers returned by CreateVNode
Nodes == {"n1", "n2"}

NoNode == "<none>"

\* variant of flushWork: every flush is requested from requestAnimationFrame
flushWork_AlwaysFrame(priority) == "requestAnimationFrame"

\* flushWork: the host function the callback running processUpdates is handed to
flushWork(priority) ==
    IF priority = LowPriority \/ priority = IdlePriority
    THEN "requestIdleCallback"
    ELSE "requestAnimationFrame"

\* a context that is not inside a Schedule call
NotInSchedule ==
    [pc |-> "idle", vnode |-> NoNode, priority |-> NormalPriority, queue |-> <<>>]

\* the slice q without its first occurrence of node n: what a flush that pops
\* n leaves of the nodes handed to Schedule
RECURSIVE Take(_, _)
Take(q, n) ==
    IF q = <<>> THEN <<>>
    ELSE IF Head(q) = n THEN Tail(q)
    ELSE <<Head(q)>> \o Take(Tail(q), n)

\* NewVirtualDOM().Scheduler, and the nodes as CreateVNode returns them
NewScheduler ==
    /\ UpdateQueue = <<>>
    /\ IsScheduled = FALSE
    /\ Priority = NormalPriority
    /\ IsDirty = [n \in Nodes |-> TRUE]
    /\ slots = <<>>
    /\ flushPc = "idle"
    /\ current = NoNode
    /\ pendingAtStart = <<>>
    /\ rendered = <<>>
    /\ late = <<>>
    /\ popped = 0
    /\ seenPriorities = {}
    /\ nSchedules = 0
    /\ inSchedule = [c \in Contexts |-> NotInSchedule]
    /\ accepted = <<>>

\* the body of vdom.Schedule(vnode, priority), flushWork included
Enqueue(vnode, priority) ==
    /\ nSchedules < MaxSchedules
    /\ nSchedules' = nSchedules + 1
    /\ UpdateQueue' = Append(UpdateQueue, vnode)
    /\ Priority' = priority
    /\ IF ~IsScheduled
       THEN /\ IsScheduled' = TRUE
            /\ slots' = Append(slots, [fn |-> flushWork(priority), priority |-> priority])
       ELSE UNCHANGED <<IsScheduled, slots>>
    /\ seenPriorities' = seenPriorities \cup {priority}
    /\ UNCHANGED <<IsDirty, flushPc, current, pendingAtStart, rendered, popped>>
    /\ accepted' = Append(accepted, vnode)
    /\ UNCHANGED <<domVars, obsVars, compVars, inSchedule, storeVars, computedVars, registryVars>>

\* vdom.Schedule(vnode, priority) called by the application while no flush runs
Schedule(vnode, priority) ==
    /\ flushPc = "idle"
    /\ Enqueue(vnode, priority)
    /\ UNCHANGED late

\* vdom.Schedule(vnode, priority) called by the render function of the node
\* that is being rendered
RenderSchedule(vnode, priority) ==
    /\ flushPc = "render"
    /\ Enqueue(vnode, priority)
    /\ late' = Append(late, vnode)

\* the host runs the oldest requested callback: processUpdates begins
HostCallback ==
    /\ flushPc = "idle"
    /\ slots # <<>>
    /\ slots' = Tail(slots)
    /\ flushPc' = "loop"
    /\ pendingAtStart' = UpdateQueue
    /\ rendered' = <<>>
    /\ late' = <<>>
    /\ popped' = 0
    /\ UNCHANGED <<UpdateQueue, IsScheduled, Priority, IsDirty, current, seenPriorities,
                   nSchedules>>
    /\ \A c \in Contexts : inSchedule[c].pc = "idle"
    /\ UNCHANGED accepted
    /\ UNCHANGED <<domVars, obsVars, compVars, inSchedule, storeVars, computedVars, registryVars>>

\* one iteration of the loop of processUpdates up to the call of renderComponent
ProcessNext ==
    /\ flushPc = "loop"
    /\ Len(UpdateQueue) > 0
    /\ UpdateQueue' = Tail(UpdateQueue)
    /\ popped' = popped + 1
    /\ IF IsDirty[Head(UpdateQueue)]
       THEN /\ flushPc' = "render"
            /\ current' = Head(UpdateQueue)
            /\ rendered' = Append(rendered, Head(UpdateQueue))
       ELSE UNCHANGED <<flushPc, current, rendered>>
    /\ UNCHANGED <<IsScheduled, Priority, IsDirty, slots, pendingAtStart, late,
                   seenPriorities, nSchedules>>
    /\ accepted' = Take(accepted, Head(UpdateQueue))
    /\ UNCHANGED <<domVars, obsVars, compVars, inSchedule, storeVars, computedVars, registryVars>>

\* renderComponent(vnode) returns and the node is marked clean
RenderReturn ==
    /\ flushPc = "render"
    /\ IsDirty' = [IsDirty EXCEPT ![current] = FALSE]
    /\ flushPc' = "loop"
    /\ current' = NoNode
    /\ UNCHANGED <<UpdateQueue, IsScheduled, Priority, slots, pendingAtStart, rendered, late,
                   popped, seenPriorities, nSchedules>>
    /\ UNCHANGED accepted
    /\ UNCHANGED <<domVars, obsVars, compVars, inSchedule, storeVars, computedVars, registryVars>>

\* the render/patch step of the node being rendered fails: an adapter call
\* on a detached handle raises, which in Go is a panic.  processUpdates has
\* no recover and neither has the callback flushWork registered, so the
\* panic leaves the loop where it stands and ends the program: the entries
\* behind the failed one stay in UpdateQueue and IsScheduled stays set
RenderPanic ==
    /\ flushPc = "render"
    /\ flushPc' = "exited"
    /\ UNCHANGED <<UpdateQueue, IsScheduled, Priority, IsDirty, slots, current,
                   pendingAtStart, rendered, late, popped, seenPriorities, nSchedules>>
    /\ UNCHANGED accepted
    /\ UNCHANGED <<domVars, obsVars, compVars, inSchedule, storeVars, computedVars, registryVars>>

\* the queue is empty: processUpdates clears IsScheduled and returns
ProcessReturn ==
    /\ flushPc = "loop"
    /\ Len(UpdateQueue) = 0
    /\ IsScheduled' = FALSE
    /\ flushPc' = "idle"
    /\ seenPriorities' = {}
    /\ UNCHANGED <<UpdateQueue, Priority, IsDirty, slots, current, pendingAtStart, rendered,
                   late, popped, nSchedules>>
    /\ UNCHANGED accepted
    /\ UNCHANGED <<domVars, obsVars, compVars, inSchedule, storeVars, computedVars, registryVars>>

\* vdom.Schedule(vnode, priority) on context c up to the allocation made by
\* append: the slice UpdateQueue has been read, the context may be descheduled
\* before the grown slice is stored
ScheduleRead(c, vnode, priority) ==
    /\ flushPc = "idle"
    /\ inSchedule[c].pc = "idle"
    /\ nSchedules < MaxSchedules
    /\ nSchedules' = nSchedules + 1
    /\ inSchedule' = [inSchedule EXCEPT ![c] =
                          [pc |-> "append", vnode |-> vnode, priority |-> priority,
                           queue |-> UpdateQueue]]
    /\ UNCHANGED <<UpdateQueue, IsScheduled, Priority, IsDirty, slots, flushPc, current,
                   pendingAtStart, rendered, late, popped, seenPriorities, accepted>>
    /\ UNCHANGED <<domVars, obsVars, compVars, storeVars, computedVars, registryVars>>

\* vdom.Schedule on context c from the store of the grown slice to the
\* allocation of the callback in flushWork: the slice that was read, with the
\* node appended, replaces UpdateQueue; Priority is stored; IsScheduled is
\* tested and set
ScheduleWrite(c) ==
    /\ inSchedule[c].pc = "append"
    /\ UpdateQueue' = Append(inSchedule[c].queue, inSchedule[c].vnode)
    /\ Priority' = inSchedule[c].priority
    /\ seenPriorities' = seenPriorities \cup {inSchedule[c].priority}
    /\ accepted' = Append(accepted, inSchedule[c].vnode)
    /\ IF ~IsScheduled
       THEN /\ IsScheduled' = TRUE
            /\ inSchedule' = [inSchedule EXCEPT ![c].pc = "flushWork"]
       ELSE /\ UNCHANGED IsScheduled
            /\ inSchedule' = [inSchedule EXCEPT ![c] = NotInSchedule]
    /\ UNCHANGED <<IsDirty, slots, flushPc, current, pendingAtStart, rendered, late, popped,
                   nSchedules>>
    /\ UNCHANGED <<domVars, obsVars, compVars, storeVars, computedVars, registryVars>>

\* flushWork on context c: the callback is handed to the host function chosen
\* by the priority this call stored, and Schedule returns
ScheduleFlushWork(c) ==
    /\ inSchedule[c].pc = "flushWork"
    /\ slots' = Append(slots, [fn |-> flushWork(inSchedule[c].priority),
                               priority |-> inSchedule[c].priority])
    /\ inSchedule' = [inSchedule EXCEPT ![c] = NotInSchedule]
    /\ UNCHANGED <<UpdateQueue, IsScheduled, Priority, IsDirty, flushPc, current,
                   pendingAtStart, rendered, late, popped, seenPriorities, nSchedules, accepted>>
    /\ UNCHANGED <<domVars, obsVars, compVars, storeVars, computedVars, registryVars>>

(***************************************************************************)
(* Store (state/reactive.go:112-266).  A state is an integer, an action a  *)
(* Type and an integer Payload; an interface{} holding v is <<v>> and a    *)
(* nil interface{} is <<>>.                                                *)
(***************************************************************************)
\* the slice keys the application uses
SliceKeys == {"a", "b"}

\* Action{Type, Payload}
Action(type, payload) == [Type |-> type, Payload |-> payload]

\* the actions the application dispatches
Actions == {Action("add", 1), Action("noop", 1)}

\* the reducers the application registers: "add" adds the payload of an "add"
\* action and returns the state it was given for any other action, "count"
\* counts the actions
Reducers == {"add", "count"}

\* reducer(state, action)
Reduce(reducer, state, action) ==
    IF reducer = "add"
    THEN IF action.Type = "add" THEN state + action.Payload ELSE state
    ELSE state + 1

\* the initial state the application registers slice key with
InitialState(key) == IF key = "a" THEN 0 ELSE 5

\* the middleware the application registers: "log" passes the action on,
\* "bump" passes it on with the payload raised by one, "block" passes an
\* "add" action on and returns without calling next for any other
Middlewares == {"log", "bump", "block"}

\* whether middleware m, called with action a, calls next
CallsNext(m, a) == m # "block" \/ a.Type = "add"

\* whether middleware m calls next a second time after the first call of
\* next has returned: "twice" does
CallsAgain(m) == m = "twice"

\* the action middleware m, called with action a, gives to next
Passed(m, a) == IF m = "bump" THEN [a EXCEPT !.Payload = @ + 1] ELSE a

\* NewStore()
NewStore ==
    /\ storeState = <<>>
    /\ storeReducers = <<>>
    /\ storeObservers = <<>>
    /\ storeMiddleware = <<>>
    /\ storeSubs = <<>>
    /\ storeFrames = <<>>
    /\ nDispatch = 0

\* m[key] = value on a Go map
MapSet(m, key, value) ==
    [k \in DOMAIN m \cup {key} |-> IF k = key THEN value ELSE m[k]]

\* s.GetState(key): the value stored under key, nil if there is none
GetState(key) ==
    IF key \in DOMAIN storeState THEN <<storeState[key]>> ELSE <<>>

\* no Dispatch is running
StoreIdle == storeFrames = <<>>

\* the innermost Dispatch in progress
StoreTop == storeFrames[Len(storeFrames)]

\* code of the application may call the store: no Dispatch is running, or a
\* subscriber that the innermost Dispatch has invoked is
StoreCaller ==
    IF StoreIdle THEN TRUE ELSE StoreTop.delivered # <<>>

\* s.AddReducer(key, reducer, initialState)
AddReducer(key, reducer, initialState) ==
    /\ StoreIdle
    /\ nDispatch = 0
    /\ key \notin DOMAIN storeReducers
    /\ storeReducers' = MapSet(storeReducers, key, reducer)
    /\ storeState' = MapSet(storeState, key, initialState)
    /\ UNCHANGED <<storeObservers, storeMiddleware, storeSubs, storeFrames, nDispatch>>
    /\ UNCHANGED <<domVars, obsVars, schedVars, compVars, computedVars, registryVars>>

\* s.AddMiddleware(middleware)
AddMiddleware(m) ==
    /\ StoreIdle
    /\ nDispatch = 0
    /\ Len(storeMiddleware) < MaxMiddleware
    /\ storeMiddleware' = Append(storeMiddleware, m)
    /\ UNCHANGED <<storeState, storeReducers, storeObservers, storeSubs, storeFrames,
                   nDispatch>>
    /\ UNCHANGED <<domVars, obsVars, schedVars, compVars, computedVars, registryVars>>

\* s.Subscribe(key, observer): the observer is appended to the list of key and
\* the unsubscribe closure captures key and the index of the new entry
StoreSubscribe(key) ==
    /\ StoreCaller
    /\ Len(storeSubs) < MaxStoreSubs
    /\ \E list \in {IF key \in DOMAIN storeObservers THEN storeObservers[key] ELSE <<>>} :
          /\ storeObservers' = MapSet(storeObservers, key, Append(list, Len(storeSubs) + 1))
          /\ storeSubs' = Append(storeSubs, [key |-> key, index |-> Len(list)])
    /\ UNCHANGED <<storeState, storeReducers, storeMiddleware, storeFrames, nDispatch>>
    /\ UNCHANGED <<domVars, obsVars, schedVars, compVars, computedVars, registryVars>>

\* the unsubscribe closure returned to subscriber s: the entry at the captured
\* index is removed if the list is that long
StoreUnsubscribe(s) ==
    /\ StoreCaller
    /\ s \in 1..Len(storeSubs)
    /\ \E key \in {storeSubs[s].key} : \E index \in {storeSubs[s].index} :
          /\ index < Len(storeObservers[key])
          /\ storeObservers' = [storeObservers EXCEPT ![key] = RemoveAt(@, index)]
    /\ UNCHANGED <<storeState, storeReducers, storeMiddleware, storeSubs, storeFrames,
                   nDispatch>>
    /\ UNCHANGED <<domVars, obsVars, schedVars, compVars, computedVars, registryVars>>

RECURSIVE next_OriginalAction(_, _)
next_OriginalAction(index, a) ==
    IF index >= Len(storeMiddleware)
    THEN [calls |-> <<>>, reached |-> <<a>>]
    ELSE LET m == storeMiddleware[index + 1]
             rest == IF CallsNext(m, a)
                     THEN next_OriginalAction(index + 1, a)
                     ELSE [calls |-> <<>>, reached |-> <<>>]
         IN  [calls |-> <<[stage |-> index + 1, middleware |-> m, action |-> a]>>
                            \o rest.calls,
              reached |-> rest.reached]

\* the closure next of Dispatch called with action a when index middleware
\* have been called: the calls of middleware made from there on, in order,
\* the actions dispatchToReducers is called with, in order, and the value of
\* the variable index, which all calls of next share, when the call returns
RECURSIVE next(_, _)
next(index, a) ==
    IF index >= Len(storeMiddleware)
    THEN [calls |-> <<>>, reached |-> <<a>>, index |-> index]
    ELSE LET m == storeMiddleware[index + 1]
             rest == IF CallsNext(m, a)
                     THEN next(index + 1, Passed(m, a))
                     ELSE [calls |-> <<>>, reached |-> <<>>, index |-> index + 1]
             again == IF CallsAgain(m)
                      THEN next(rest.index, Passed(m, a))
                      ELSE [calls |-> <<>>, reached |-> <<>>, index |-> rest.index]
         IN  [calls |-> <<[stage |-> index + 1, middleware |-> m, action |-> a]>>
                            \o rest.calls \o again.calls,
              reached |-> rest.reached \o again.reached,
              index |-> again.index]

applyReducer_OtherSlice(acc, key, a) ==
    IF key \in DOMAIN acc.state
    THEN LET other == CHOOSE k \in DOMAIN acc.state : DOMAIN acc.state = {key} \/ k # key
         IN  [state |-> [acc.state EXCEPT
                            ![key] = Reduce(storeReducers[key], acc.state[other], a)],
              calls |-> acc.calls \cup
                           {[key |-> key, state |-> acc.state[other], action |-> a]}]
    ELSE acc

\* the body of the loop over s.reducers for one key: the reducer is called
\* with state[key] and its result is stored under key
applyReducer(acc, key, a) ==
    IF key \in DOMAIN acc.state
    THEN [state |-> [acc.state EXCEPT
                        ![key] = Reduce(storeReducers[key], acc.state[key], a)],
          calls |-> acc.calls \cup {[key |-> key, state |-> acc.state[key], action |-> a]}]
    ELSE acc

\* the loop over s.reducers; the reducers write different keys, so the order
\* of the map iteration does not show
RECURSIVE applyReducers(_, _, _)
applyReducers(acc, keys, a) ==
    IF keys = {} THEN acc
    ELSE LET key == CHOOSE k \in keys : TRUE
         IN  applyReducers(applyReducer(acc, key, a), keys \ {key}, a)

Reduced_SuppressEqual(a) ==
    LET acc == applyReducers([state |-> storeState, calls |-> {}], DOMAIN storeReducers, a)
    IN  [oldState |-> storeState, state |-> acc.state, calls |-> acc.calls,
         observersToNotify |->
             [key \in {k \in DOMAIN storeObservers :
                          k \in DOMAIN storeState => acc.state[k] # storeState[k]} |->
                 storeObservers[key]]]

Reduced_StoreUnregistered(a) ==
    LET acc == applyReducers([state |-> storeState, calls |-> {}], DOMAIN storeReducers, a)
    IN  [oldState |-> storeState,
         state |-> [k \in DOMAIN acc.state \cup DOMAIN storeObservers |->
                       IF k \in DOMAIN acc.state THEN acc.state[k] ELSE 0],
         calls |-> acc.calls,
         observersToNotify |-> storeObservers]

\* dispatchToReducers(a) from s.mutex.Lock() to s.mutex.Unlock(): the copy of
\* the state, the state the reducers leave, the calls of the reducers, and the
\* copy of every subscriber list
Reduced(a) ==
    LET acc == applyReducers([state |-> storeState, calls |-> {}], DOMAIN storeReducers, a)
    IN  [oldState |-> storeState, state |-> acc.state, calls |-> acc.calls,
         observersToNotify |-> storeObservers]

\* the orders in which a range over a map with the keys ks can visit them
KeyOrders(ks) ==
    {o \in [1..Cardinality(ks) -> ks] : \A i, j \in DOMAIN o : i # j => o[i] # o[j]}

\* a Dispatch(action) in progress: the calls of middleware it made, the action
\* that reached dispatchToReducers (none if a middleware did not call next),
\* what dispatchToReducers computed under the lock, the order of the
\* notification loop over the keys, the position of the loop (key k of the
\* order, observer i of its list), newState as read for that key, and the
\* calls of observers made so far, each with the subscriber list of its key
\* as it was at the call; subscribed is the number of Subscribe calls made
\* before the Dispatch
StoreFrame(action, run, r, order) ==
    [action |-> action, chain |-> run.calls, reached |-> run.reached,
     oldState |-> r.oldState, calls |-> r.calls,
     observersToNotify |-> r.observersToNotify,
     order |-> order, k |-> 1, i |-> 0, newState |-> <<>>, delivered |-> <<>>,
     subscribed |-> Len(storeSubs)]

\* s.Dispatch(action) up to the s.mutex.Unlock() of dispatchToReducers, or to
\* its return if a middleware does not call next
DispatchCall(action) ==
    /\ nDispatch < MaxDispatch
    /\ nDispatch' = nDispatch + 1
    /\ \E run \in {IF Len(storeMiddleware) = 0
                   THEN [calls |-> <<>>, reached |-> <<action>>]
                   ELSE next(0, action)} :
          IF run.reached = <<>>
          THEN /\ storeFrames' = Append(storeFrames,
                      StoreFrame(action, run,
                                 [oldState |-> storeState, calls |-> {},
                                  observersToNotify |-> <<>>], <<>>))
               /\ UNCHANGED storeState
          ELSE \E r \in {Reduced(run.reached[1])} :
               \E order \in KeyOrders({key \in DOMAIN r.observersToNotify :
                                          r.observersToNotify[key] # <<>>}) :
                   /\ storeState' = r.state
                   /\ storeFrames' = Append(storeFrames, StoreFrame(action, run, r, order))
    /\ UNCHANGED <<storeReducers, storeObservers, storeMiddleware, storeSubs>>
    /\ UNCHANGED <<domVars, obsVars, schedVars, compVars, computedVars, registryVars>>

\* s.Dispatch(action) called by the application while no Dispatch runs
Dispatch(action) ==
    /\ StoreIdle
    /\ DispatchCall(action)

\* s.Dispatch(action) called by the subscriber that the notification loop of
\* the innermost Dispatch has just called: the mutex is free by then
SubscriberDispatch(action) ==
    /\ ~StoreIdle
    /\ StoreTop.delivered # <<>>
    /\ DispatchCall(action)

PassStoreObservers_Live(f, key) == storeObservers[key]

\* the observers the notification loop of frame f calls for key: the copy
\* made under the lock
PassStoreObservers(f, key) == f.observersToNotify[key]

\* oldState[key] of frame f
OldStateValue(f, key) ==
    IF key \in DOMAIN f.oldState THEN <<f.oldState[key]>> ELSE <<>>

\* one step of the notification loop of dispatchToReducers: newState is read
\* with GetState when the loop comes to a key, and the next observer of the
\* key is called with (newState, oldState[key])
StoreNotify ==
    /\ ~StoreIdle
    /\ StoreTop.k <= Len(StoreTop.order)
    /\ \E f \in {StoreTop} : \E key \in {f.order[f.k]} :
       \E obs \in {PassStoreObservers(f, key)} :
       \E new \in {IF f.i = 0 THEN GetState(key) ELSE f.newState} :
          storeFrames' = [storeFrames EXCEPT ![Len(storeFrames)] =
              [f EXCEPT !.newState = new,
                        !.delivered = IF f.i < Len(obs)
                                      THEN Append(@, [key |-> key, sub |-> obs[f.i + 1],
                                                      new |-> new,
                                                      old |-> OldStateValue(f, key),
                                                      live |-> storeObservers[key]])
                                      ELSE @,
                        !.i = IF f.i + 1 < Len(obs) THEN f.i + 1 ELSE 0,
                        !.k = IF f.i + 1 < Len(obs) THEN f.k ELSE f.k + 1]]
    /\ UNCHANGED <<storeState, storeReducers, storeObservers, storeMiddleware, storeSubs,
                   nDispatch>>
    /\ UNCHANGED <<domVars, obsVars, schedVars, compVars, computedVars, registryVars>>

\* the notification loop is over and dispatchToReducers returns into a
\* middleware that calls next again: dispatchToReducers runs, up to its
\* Unlock, for the next action that reaches it
StoreAgain ==
    /\ ~StoreIdle
    /\ StoreTop.k > Len(StoreTop.order)
    /\ Len(StoreTop.reached) > 1
    /\ \E f \in {StoreTop} : \E r \in {Reduced(f.reached[2])} :
       \E order \in KeyOrders({key \in DOMAIN r.observersToNotify :
                                  r.observersToNotify[key] # <<>>}) :
          /\ storeState' = r.state
          /\ storeFrames' = [storeFrames EXCEPT ![Len(storeFrames)] =
                 StoreFrame(f.action, [calls |-> f.chain, reached |-> Tail(f.reached)],
                            r, order)]
    /\ UNCHANGED <<storeReducers, storeObservers, storeMiddleware, storeSubs, nDispatch>>
    /\ UNCHANGED <<domVars, obsVars, schedVars, compVars, computedVars, registryVars>>

\* the notification loop is over, or no reducer was reached: Dispatch returns
StoreReturn ==
    /\ ~StoreIdle
    /\ StoreTop.k > Len(StoreTop.order)
    /\ Len(StoreTop.reached) <= 1
    /\ storeFrames' = SubSeq(storeFrames, 1, Len(storeFrames) - 1)
    /\ UNCHANGED <<storeState, storeReducers, storeObservers, storeMiddleware, storeSubs,
                   nDispatch>>
    /\ UNCHANGED <<domVars, obsVars, schedVars, compVars, computedVars, registryVars>>

(***************************************************************************)
(* Registry of server functions (unnamed/part_015:52-445).  The registered *)
(* functions take no argument; a function value is known by its result     *)
(* types.  An interface value holding the string v is <<v>>, a non-nil     *)
(* error is <<"error">> and a nil interface value is <<>>.                 *)
(***************************************************************************)
ServiceNames == {"a", "a.b"}

FunctionNames == {"c", "b.c"}

\* the values handed to RegisterFunction as fn: nil, a string, func() string,
\* func() (string, error), func() error
Fns == {"nil", "string", "func() string", "func() (string, error)", "func() error"}

NilError == <<>>

\* fmt.Sprintf("%s.%s", serviceName, functionName)
Key(serviceName, functionName) == serviceName \o "." \o functionName

\* reflect.ValueOf(fn).Type().Kind()
Kind(fn) == IF fn = "string" THEN "String" ELSE "Func"

NoResult ==
    [op |-> "none", key |-> "", before |-> <<>>, invoked |-> FALSE, returned |-> <<>>,
     any |-> <<>>, err |-> NilError, list |-> <<>>]

\* NewRegistry()
NewRegistry ==
    /\ functions = <<>>
    /\ registered = {}
    /\ result = NoResult

\* r.RegisterFunction(serviceName, functionName, fn).  reflect.ValueOf(nil) is
\* the zero Value, whose Type() panics; the deferred Unlock runs
RegisterFunction(serviceName, functionName, fn) ==
    /\ IF fn = "nil"
       THEN /\ result' = [NoResult EXCEPT !.op = "RegisterFunction",
                                          !.key = Key(serviceName, functionName),
                                          !.before = functions,
                                          !.err = <<"panic">>]
            /\ UNCHANGED <<functions, registered>>
       ELSE IF Kind(fn) # "Func"
       THEN /\ result' = [NoResult EXCEPT !.op = "RegisterFunction",
                                          !.key = Key(serviceName, functionName),
                                          !.before = functions,
                                          !.err = <<"provided value is not a function">>]
            /\ UNCHANGED <<functions, registered>>
       ELSE /\ functions' = MapSet(functions, Key(serviceName, functionName),
                                   [Name |-> functionName, ServiceName |-> serviceName,
                                    Function |-> fn])
            /\ registered' = registered \cup {Key(serviceName, functionName)}
            /\ result' = [NoResult EXCEPT !.op = "RegisterFunction",
                                          !.key = Key(serviceName, functionName),
                                          !.before = functions]
    /\ UNCHANGED <<domVars, obsVars, schedVars, compVars, storeVars, computedVars>>

\* convertArgs for a function without parameters: the error it returns
convertArgs(nargs) ==
    IF nargs > 0 THEN <<"too many arguments provided">> ELSE NilError

\* meta.Function.Call(callArgs): the results of the function, whose error
\* result is non-nil when the function fails
FunctionCall(fn, fails) ==
    IF fn = "func() string" THEN <<(<<"v">>)>>
    ELSE IF fn = "func() (string, error)"
         THEN <<(<<"v">>), IF fails THEN <<"error">> ELSE NilError>>
         ELSE <<IF fails THEN <<"error">> ELSE NilError>>

\* json.Marshal(value): a string is quoted, a nil interface is null, an error
\* value (a struct without exported fields) is {}
Marshal(value) ==
    IF value = NilError THEN "null"
    ELSE IF value = <<"error">> THEN "{}"
    ELSE "\"" \o value[1] \o "\""

\* valueToAny(value)
valueToAny(value) == [any |-> <<Marshal(value)>>, err |-> NilError]

\* convertResult(results), for one and for two results
convertResult(results) ==
    IF Len(results) = 1
    THEN valueToAny(results[1])
    ELSE IF results[2] # NilError
         THEN [any |-> <<>>, err |-> results[2]]
         ELSE valueToAny(results[1])

\* r.CallFunction(ctx, serviceName, functionName, args) with nargs arguments,
\* the function failing or not
CallFunction(serviceName, functionName, nargs, fails) ==
    /\ \E key \in {Key(serviceName, functionName)} :
          IF key \notin DOMAIN functions
          THEN result' = [NoResult EXCEPT !.op = "CallFunction", !.key = key,
                                          !.before = functions,
                                          !.err = <<"function not found">>]
          ELSE IF convertArgs(nargs) # NilError
          THEN result' = [NoResult EXCEPT !.op = "CallFunction", !.key = key,
                                          !.before = functions,
                                          !.err = <<"failed to convert arguments">>]
          ELSE \E results \in {FunctionCall(functions[key].Function, fails)} :
                  result' = [NoResult EXCEPT !.op = "CallFunction", !.key = key,
                                             !.before = functions,
                                             !.invoked = TRUE,
                                             !.returned = results,
                                             !.any = convertResult(results).any,
                                             !.err = convertResult(results).err]
    /\ UNCHANGED <<functions, registered>>
    /\ UNCHANGED <<domVars, obsVars, schedVars, compVars, storeVars, computedVars>>

\* the loop of ListFunctions over the map, in the order ord of its keys
RECURSIVE listFrom(_, _, _)
listFrom(ord, i, serviceName) ==
    IF i > Len(ord) THEN <<>>
    ELSE IF serviceName # "" /\ functions[ord[i]].ServiceName # serviceName
         THEN listFrom(ord, i + 1, serviceName)
         ELSE <<[Name |-> functions[ord[i]].Name,
                 ServiceName |-> functions[ord[i]].ServiceName]>>
              \o listFrom(ord, i + 1, serviceName)

\* r.ListFunctions(serviceName)
ListFunctions(serviceName) ==
    /\ \E ord \in KeyOrders(DOMAIN functions) :
          result' = [NoResult EXCEPT !.op = "ListFunctions", !.key = serviceName,
                                     !.before = functions,
                                     !.list = listFrom(ord, 1, serviceName)]
    /\ UNCHANGED <<functions, registered>>
    /\ UNCHANGED <<domVars, obsVars, schedVars, compVars, storeVars, computedVars>>

(***************************************************************************)
(* The trees the render pipeline is run on                                 *)
(***************************************************************************)
Keys == {"a", "b", "c"}

\* the orders a range over a props map can take
Orders == {o \in [1..Cardinality(PropNames) -> PropNames] :
              \A i, j \in DOMAIN o : i # j => o[i] # o[j]}

KeyProps(k) == IF k = "" THEN EmptyMap ELSE [n \in {"key"} |-> k]

Leaf(t, k) == CreateVNode(t, KeyProps(k), <<>>)

\* children of the keyed family: one unkeyed leaf, keyed leaves, key "a" on two types
ChildNodes ==
    {Leaf("span", ""), Leaf("span", "a"), Leaf("div", "a"), Leaf("span", "b"), Leaf("span", "c")}

\* sibling keys are unique (spec section 3)
UniqueKeys(children) ==
    \A i, j \in 1..Len(children) :
        (i # j /\ children[i].Key # "") => children[i].Key # children[j].Key

SeqsUpTo(S, n) == UNION {[1..m -> S] : m \in 0..n}

ChildLists == {c \in SeqsUpTo(ChildNodes, MaxChildren) : UniqueKeys(c)}

KeyedTrees == {CreateVNode("ul", EmptyMap, c) : c \in ChildLists}

Wrap(children) == CreateVNode("div", EmptyMap, children)

\* children of the unkeyed family: a leaf and two parents of keyed grandchildren,
\* one of them with a prop
NestedNodes ==
    {Leaf("span", ""),
     Wrap(<<Leaf("span", "a"), Leaf("span", "b")>>),
     CreateVNode("div", [n \in {"id"} |-> "1"],
                 <<Leaf("span", "b"), Leaf("div", "a"), Leaf("span", "")>>)}

NestedTrees == {CreateVNode("ul", EmptyMap, c) : c \in SeqsUpTo(NestedNodes, MaxChildren)}

\* props of the root family: any map of key and id
RootProps ==
    {[n \in d |-> IF n = "key" THEN kv[1] ELSE kv[2]] :
        d \in SUBSET PropNames, kv \in {"a", "b"} \X {"1", "2"}}

RootTrees ==
    {CreateVNode(t, p, c) : t \in Types, p \in RootProps,
                            c \in {<<>>, <<Leaf("span", "")>>}} \cup {Nil}

(***************************************************************************)
(* The render pipeline: Diff(oldTree, newTree), then either a second call  *)
(* of Diff on the same arguments or Patch of the returned operations       *)
(***************************************************************************)
\* the committed tree is mounted; the new tree is a fresh render of the same family
Init ==
    /\ \E family \in {KeyedTrees, NestedTrees, RootTrees} :
          /\ oldTree \in family
          /\ \E ord \in Orders :
                \E m \in {MountTree(oldTree, ord)} :
                /\ elems = m.elems
                /\ jsElement = m.js
          /\ newTree \in family
    /\ pc = "start"
    /\ diffs = <<>>
    /\ diffs2 = <<>>
    /\ panicked = FALSE
    /\ ObservableInit({})
    /\ NewScheduler
    /\ NewComponent
    /\ NewStore
    /\ computed = NoComputed
    /\ NewRegistry

\* diffs := vdom.Diff(oldTree, newTree)
DoDiff ==
    /\ pc = "start"
    /\ \E ord \in Orders :
          \E r \in {Diff(oldTree, newTree, ord)} :
          /\ panicked' = Panics(r)
          /\ diffs' = IF Panics(r) THEN <<>> ELSE r
    /\ pc' = "diffed"
    /\ UNCHANGED <<oldTree, newTree, diffs2, elems, jsElement>>
    /\ UNCHANGED <<obsVars, schedVars, compVars, storeVars, computedVars, registryVars>>

\* a second vdom.Diff(oldTree, newTree) on the same VirtualDOM
DiffAgain ==
    /\ pc = "diffed"
    /\ ~panicked
    /\ \E ord \in Orders :
          \E r \in {Diff(oldTree, newTree, ord)} :
          /\ panicked' = Panics(r)
          /\ diffs2' = IF Panics(r) THEN <<>> ELSE r
    /\ pc' = "again"
    /\ UNCHANGED <<oldTree, newTree, diffs, elems, jsElement>>
    /\ UNCHANGED <<obsVars, schedVars, compVars, storeVars, computedVars, registryVars>>

\* vdom.Patch(diffs)
DoPatch ==
    /\ pc = "diffed"
    /\ ~panicked
    /\ \E ord \in Orders :
          \E st \in {Patch([elems |-> elems, js |-> jsElement], diffs, 1, newTree, ord)} :
          /\ elems' = st.elems
          /\ jsElement' = st.js
    /\ pc' = "patched"
    /\ UNCHANGED <<oldTree, newTree, diffs, diffs2, panicked>>
    /\ UNCHANGED <<obsVars, schedVars, compVars, storeVars, computedVars, registryVars>>

Next == DoDiff \/ DiffAgain \/ DoPatch

Spec == Init /\ [][Next]_vars

(***************************************************************************)
(* Diff on child lists in which siblings may carry the same key            *)
(***************************************************************************)
\* children that share the key "a": two types, and two prop maps on one type
DuplicateNodes ==
    {Leaf("span", "a"), Leaf("div", "a"),
     CreateVNode("span", [n \in {"key", "id"} |-> IF n = "key" THEN "a" ELSE "1"], <<>>)}

DuplicateTrees ==
    {CreateVNode("ul", EmptyMap, c) : c \in SeqsUpTo(DuplicateNodes, MaxChildren)}

InitDuplicateKeys ==
    /\ oldTree \in DuplicateTrees
    /\ \E ord \in Orders :
          \E m \in {MountTree(oldTree, ord)} :
          /\ elems = m.elems
          /\ jsElement = m.js
    /\ newTree \in DuplicateTrees
    /\ pc = "start"
    /\ diffs = <<>>
    /\ diffs2 = <<>>
    /\ panicked = FALSE
    /\ ObservableInit({})
    /\ NewScheduler
    /\ NewComponent
    /\ NewStore
    /\ computed = NoComputed
    /\ NewRegistry

NextDuplicateKeys == DoDiff \/ DiffAgain

SpecDuplicateKeys == InitDuplicateKeys /\ [][NextDuplicateKeys]_vars

(***************************************************************************)
(* One execution context using an Observable: calls are made one after     *)
(* another, the render pipeline is not running                             *)
(***************************************************************************)
InitObservable ==
    /\ oldTree = Nil
    /\ newTree = Nil
    /\ pc = "off"
    /\ diffs = <<>>
    /\ diffs2 = <<>>
    /\ panicked = FALSE
    /\ elems = MountTree(Nil, <<>>).elems
    /\ jsElement = {}
    /\ ObservableInit({"main"})
    /\ NewScheduler
    /\ NewComponent
    /\ NewStore
    /\ computed = NoComputed
    /\ NewRegistry

NextObservable ==
    \E c \in Contexts :
        \/ Subscribe(c, FALSE)
        \/ \E s \in 1..MaxSubs : Unsubscribe(c, s)
        \/ \E v \in Values : Set(c, v)
        \/ \E f \in UpdateFns : Update(c, f)
        \/ Notify(c)
        \/ Return(c)

SpecObservable == InitObservable /\ [][NextObservable]_vars

(***************************************************************************)
(* One execution context whose subscribers may call back into the          *)
(* Observable (Subscribe, unsubscribe, Set, Update) from their callback;   *)
(* a callback that makes no call behaves as a plain subscriber             *)
(***************************************************************************)
\* the values written by the Set calls of the re-entrant run
Written == {1, 2}

InitReentrant ==
    /\ oldTree = Nil
    /\ newTree = Nil
    /\ pc = "off"
    /\ diffs = <<>>
    /\ diffs2 = <<>>
    /\ panicked = FALSE
    /\ elems = MountTree(Nil, <<>>).elems
    /\ jsElement = {}
    /\ ObservableInit({"main"})
    /\ NewScheduler
    /\ NewComponent
    /\ NewStore
    /\ computed = NoComputed
    /\ NewRegistry

NextReentrant ==
    \E c \in Contexts :
        \/ Subscribe(c, TRUE)
        \/ \E s \in 1..MaxSubs : Unsubscribe(c, s)
        \/ \E v \in Written : Set(c, v)
        \/ Update(c, "inc")
        \/ Notify(c)
        \/ Return(c)

SpecReentrant == InitReentrant /\ [][NextReentrant]_vars

(***************************************************************************)
(* Two execution contexts sharing an Observable: each calls Set(2) and     *)
(* Update(x -> x+1); an Update function may call Get on the Observable     *)
(***************************************************************************)
InitConcurrent ==
    /\ oldTree = Nil
    /\ newTree = Nil
    /\ pc = "off"
    /\ diffs = <<>>
    /\ diffs2 = <<>>
    /\ panicked = FALSE
    /\ elems = MountTree(Nil, <<>>).elems
    /\ jsElement = {}
    /\ ObservableInit(Contexts)
    /\ NewScheduler
    /\ NewComponent
    /\ NewStore
    /\ computed = NoComputed
    /\ NewRegistry

NextConcurrent ==
    \E c \in Contexts :
        \/ Subscribe(c, FALSE)
        \/ \E s \in 1..MaxSubs : Unsubscribe(c, s)
        \/ Set(c, 2)
        \/ UpdateBegin(c, "inc")
        \/ UpdateFnGet(c)
        \/ UpdateEnd(c)
        \/ Notify(c)
        \/ Return(c)

SpecConcurrent == InitConcurrent /\ [][NextConcurrent]_vars

(***************************************************************************)
(* A Component with one state variable: UseState, Mount, and Set / Update  *)
(* on the Observable that UseState returned                                *)
(***************************************************************************)
InitComponent ==
    /\ oldTree = Nil
    /\ newTree = Nil
    /\ pc = "off"
    /\ diffs = <<>>
    /\ diffs2 = <<>>
    /\ panicked = FALSE
    /\ elems = MountTree(Nil, <<>>).elems
    /\ jsElement = {}
    /\ ObservableInit({"main"})
    /\ NewScheduler
    /\ NewComponent
    /\ NewStore
    /\ computed = NoComputed
    /\ NewRegistry

NextComponent ==
    \E c \in Contexts :
        \/ UseState(c)
        \/ ComponentMount(c)
        \/ Subscribe(c, FALSE)
        \/ \E v \in Values : Set(c, v)
        \/ \E f \in UpdateFns : Update(c, f)
        \/ Notify(c)
        \/ Return(c)

SpecComponent == InitComponent /\ [][NextComponent]_vars

(***************************************************************************)
(* The Scheduler of a VirtualDOM: the application schedules nodes, the     *)
(* host runs the requested callbacks, a render function may schedule       *)
(***************************************************************************)
InitScheduler ==
    /\ oldTree = Nil
    /\ newTree = Nil
    /\ pc = "off"
    /\ diffs = <<>>
    /\ diffs2 = <<>>
    /\ panicked = FALSE
    /\ elems = MountTree(Nil, <<>>).elems
    /\ jsElement = {}
    /\ ObservableInit({})
    /\ NewScheduler
    /\ NewComponent
    /\ NewStore
    /\ computed = NoComputed
    /\ NewRegistry

NextScheduler ==
    \/ \E n \in Nodes : \E p \in Priorities : Schedule(n, p)
    \/ \E n \in Nodes : \E p \in Priorities : RenderSchedule(n, p)
    \/ HostCallback
    \/ ProcessNext
    \/ RenderReturn
    \/ ProcessReturn

SpecScheduler == InitScheduler /\ [][NextScheduler]_vars

(***************************************************************************)
(* The Scheduler when only the application schedules: render functions     *)
(* schedule nothing                                                        *)
(***************************************************************************)
NextSchedulerApplication ==
    \/ \E n \in Nodes : \E p \in Priorities : Schedule(n, p)
    \/ HostCallback
    \/ ProcessNext
    \/ RenderReturn
    \/ ProcessReturn

SpecSchedulerApplication == InitScheduler /\ [][NextSchedulerApplication]_vars

(***************************************************************************)
(* The Scheduler when the render/patch step of a scheduled node can fail   *)
(***************************************************************************)
NextSchedulerFailure ==
    \/ \E n \in Nodes : \E p \in Priorities : Schedule(n, p)
    \/ HostCallback
    \/ ProcessNext
    \/ RenderReturn
    \/ RenderPanic
    \/ ProcessReturn

SpecSchedulerFailure == InitScheduler /\ [][NextSchedulerFailure]_vars

(***************************************************************************)
(* A Registry: functions are registered, called and listed                 *)
(***************************************************************************)
InitRegistry == InitScheduler

NextRegistry ==
    \/ \E s \in ServiceNames : \E f \in FunctionNames : \E fn \in Fns :
          RegisterFunction(s, f, fn)
    \/ \E s \in ServiceNames : \E f \in FunctionNames : \E nargs \in 0..1 :
          \E fails \in BOOLEAN : CallFunction(s, f, nargs, fails)
    \/ \E s \in ServiceNames \cup {""} : ListFunctions(s)

SpecRegistry == InitRegistry /\ [][NextRegistry]_vars

(***************************************************************************)
(* Two execution contexts calling Schedule on one VirtualDOM: a context    *)
(* can be descheduled where Schedule allocates memory                      *)
(***************************************************************************)
\* the priorities passed by the two contexts
RacePriorities == {NormalPriority, IdlePriority}

NextSchedulerRace ==
    \/ \E c \in Contexts :
          \/ \E n \in Nodes : \E p \in RacePriorities : ScheduleRead(c, n, p)
          \/ ScheduleWrite(c)
          \/ ScheduleFlushWork(c)
    \/ HostCallback
    \/ ProcessNext
    \/ RenderReturn
    \/ ProcessReturn

SpecSchedulerRace == InitScheduler /\ [][NextSchedulerRace]_vars

(***************************************************************************)
(* A Store used from one execution context: reducers, middleware and      *)
(* subscribers are registered, then actions are dispatched                 *)
(***************************************************************************)
InitStore == InitScheduler

NextStore ==
    \/ \E key \in SliceKeys : \E reducer \in Reducers :
          AddReducer(key, reducer, InitialState(key))
    \/ \E m \in Middlewares : AddMiddleware(m)
    \/ \E key \in SliceKeys : StoreSubscribe(key)
    \/ \E a \in Actions : Dispatch(a)
    \/ StoreNotify
    \/ StoreReturn

SpecStore == InitStore /\ [][NextStore]_vars

(***************************************************************************)
(* A Store without middleware whose slices add up the payloads dispatched  *)
(* and whose subscribers may subscribe and unsubscribe from their callback *)
(***************************************************************************)
NextStoreSubscribers ==
    \/ \E key \in SliceKeys : AddReducer(key, "add", InitialState(key))
    \/ \E key \in SliceKeys : StoreSubscribe(key)
    \/ \E s \in 1..MaxStoreSubs : StoreUnsubscribe(s)
    \/ Dispatch(Action("add", 1))
    \/ StoreNotify
    \/ StoreReturn

SpecStoreSubscribers == InitStore /\ [][NextStoreSubscribers]_vars

(***************************************************************************)
(* A Store without middleware whose subscribers may dispatch from their    *)
(* callback                                                                *)
(***************************************************************************)
NextStoreReentrant ==
    \/ \E key \in SliceKeys : AddReducer(key, "add", InitialState(key))
    \/ \E key \in SliceKeys : StoreSubscribe(key)
    \/ Dispatch(Action("add", 1))
    \/ SubscriberDispatch(Action("add", 1))
    \/ StoreNotify
    \/ StoreReturn

SpecStoreReentrant == InitStore /\ [][NextStoreReentrant]_vars

(***************************************************************************)
(* A Store whose middleware may call next twice                            *)
(***************************************************************************)
NextStoreTwice ==
    \/ \E key \in SliceKeys : AddReducer(key, "add", InitialState(key))
    \/ \E m \in {"log", "twice"} : AddMiddleware(m)
    \/ \E key \in SliceKeys : StoreSubscribe(key)
    \/ Dispatch(Action("add", 1))
    \/ StoreNotify
    \/ StoreAgain
    \/ StoreReturn

SpecStoreTwice == InitStore /\ [][NextStoreTwice]_vars

(***************************************************************************)
(* A Computed over one dependency, an Observable or a Store: the           *)
(* dependency is written (Set, Dispatch) after the Computed was created    *)
(***************************************************************************)
NextComputed ==
    \/ \E c \in {"main"} :
          \/ \E dep \in ComputedDeps : NewComputed(c, dep)
          \/ ComputedSubscribe(c)
          \/ \E v \in Written : Set(c, v)
          \/ Notify(c)
          \/ Return(c)
    \/ AddReducer("a", "add", InitialState("a"))
    \/ Dispatch(Action("add", 1))
    \/ StoreReturn

SpecComputed == InitComponent /\ [][NextComputed]_vars

(***************************************************************************)
(* Properties of Diff, stated on the operations recorded in diffs          *)
(***************************************************************************)
Diffed == pc = "diffed" /\ ~panicked

BothNodes == ~IsNil(oldTree) /\ ~IsNil(newTree)

SameType == BothNodes /\ oldTree.Type = newTree.Type

OpIdx == 1..Len(diffs)

IsPrefix(p, q) == Len(p) <= Len(q) /\ SubSeq(q, 1, Len(p)) = p

\* operation e concerns a node strictly below the node at path p of the given tree
Below(e, tree, p) ==
    \/ tree = "old" /\ e.OldNode.tree = "old" /\ IsPrefix(p, e.OldNode.path) /\ e.OldNode.path # p
    \/ tree = "new" /\ e.NewNode.tree = "new" /\ IsPrefix(p, e.NewNode.path) /\ e.NewNode.path # p

\* C7: Diff(nil, new) is exactly one Create for new, Diff(old, nil) exactly one
\* Remove for old, and Diff of two nodes of different Types exactly one
\* Replace(old, new); no operation concerns a descendant of a replaced node.
C7_BaseCases ==
    Diffed =>
        /\ (IsNil(oldTree) /\ ~IsNil(newTree)) =>
               diffs = <<MkDiff(DiffCreate, NilRef, NewRef(<<>>), 0, EmptyMap)>>
        /\ (~IsNil(oldTree) /\ IsNil(newTree)) =>
               diffs = <<MkDiff(DiffRemove, OldRef(<<>>), NilRef, 0, EmptyMap)>>
        /\ (BothNodes /\ oldTree.Type # newTree.Type) =>
               diffs = <<MkDiff(DiffReplace, OldRef(<<>>), NewRef(<<>>), 0, EmptyMap)>>
        /\ \A i \in OpIdx :
               diffs[i].Type = DiffReplace =>
                   /\ NodeAt(oldTree, diffs[i].OldNode.path).Type
                          # NodeAt(newTree, diffs[i].NewNode.path).Type
                   /\ \A j \in OpIdx :
                          /\ ~Below(diffs[j], "old", diffs[i].OldNode.path)
                          /\ ~Below(diffs[j], "new", diffs[i].NewNode.path)

\* a Replace of two nodes that both have children has been computed
C7_Witness ==
    /\ Diffed
    /\ \E i \in OpIdx :
          /\ diffs[i].Type = DiffReplace
          /\ NodeAt(oldTree, diffs[i].OldNode.path).Children # <<>>
          /\ NodeAt(newTree, diffs[i].NewNode.path).Children # <<>>

\* the delta the claim describes for props o of the old node and n of the new node
ExpectedDelta(o, n) ==
    [k \in {x \in DOMAIN n : x \notin DOMAIN o \/ o[x] # n[x]} \cup ((DOMAIN o) \ (DOMAIN n)) |->
        IF k \in DOMAIN n THEN n[k] ELSE Tombstone]

\* C8: for two nodes of the same Type the delta maps each added or changed key
\* to its new value and each key only in the old props to the tombstone, has
\* no other key, and an Update is emitted iff the delta is non-empty.
C8_PropDelta ==
    Diffed =>
        /\ SameType =>
               LET delta == ExpectedDelta(oldTree.Props, newTree.Props) IN
               IF DOMAIN delta = {}
               THEN \A i \in OpIdx : ~(diffs[i].Type = DiffUpdate /\ diffs[i].OldNode = OldRef(<<>>))
               ELSE /\ Len(diffs) >= 1
                    /\ diffs[1] = MkDiff(DiffUpdate, OldRef(<<>>), NewRef(<<>>), 0, delta)
                    /\ \A i \in OpIdx \ {1} : diffs[i].OldNode # OldRef(<<>>)
        /\ \A i \in OpIdx :
               diffs[i].Type = DiffUpdate =>
                   /\ DOMAIN diffs[i].Props # {}
                   /\ diffs[i].Props = ExpectedDelta(NodeAt(oldTree, diffs[i].OldNode.path).Props,
                                                     NodeAt(newTree, diffs[i].NewNode.path).Props)

\* an Update whose delta holds a changed value and a tombstone has been computed
C8_Witness ==
    /\ Diffed
    /\ SameType
    /\ \E i \in OpIdx :
          /\ diffs[i].Type = DiffUpdate
          /\ \E k1, k2 \in DOMAIN diffs[i].Props :
                /\ diffs[i].Props[k1] = Tombstone
                /\ diffs[i].Props[k2] # Tombstone
                /\ k2 \in DOMAIN oldTree.Props

\* C2: Diff(T, T') is empty when T' is structurally identical to T (a tree
\* with unique sibling keys), for unkeyed, keyed and mixed child lists.
C2_Idempotence ==
    (pc = "diffed" /\ ~IsNil(oldTree) /\ newTree = oldTree) =>
        (~panicked /\ diffs = <<>>)

\* Diff has run on two identical trees whose child list mixes keyed and unkeyed children
C2_Witness ==
    /\ Diffed
    /\ newTree = oldTree
    /\ ~IsNil(oldTree)
    /\ \E i, j \in 1..Len(oldTree.Children) :
          oldTree.Children[i].Key # "" /\ oldTree.Children[j].Key = ""

\* the root's child lists are reconciled by key
KeyedMode == SameType /\ (hasKeys(oldTree.Children) \/ hasKeys(newTree.Children))

\* new children j1 < j2 whose keys sit at old positions i1 > i2
OutOfOrder(oldChildren, newChildren) ==
    \E j1, j2 \in 1..Len(newChildren), i1, i2 \in 1..Len(oldChildren) :
        /\ j1 < j2
        /\ i1 > i2
        /\ newChildren[j1].Key # "" /\ newChildren[j1].Key = oldChildren[i1].Key
        /\ newChildren[j2].Key # "" /\ newChildren[j2].Key = oldChildren[i2].Key

ReordersAt(index) == {i \in OpIdx : diffs[i].Type = DiffReorder /\ diffs[i].Index = index}

KeyedTriple == <<Leaf("span", "a"), Leaf("span", "b"), Leaf("span", "c")>>

RotatedTriple == <<Leaf("span", "c"), Leaf("span", "a"), Leaf("span", "b")>>

\* C3: for a child list with a key present Diff emits exactly one Reorder for
\* the parent when the old positions of the matched children, read in new
\* order, are not non-decreasing, and none otherwise; [A,B,C] -> [C,A,B]
\* yields exactly one Reorder and no Create or Remove.
C3_ReorderDetection ==
    Diffed =>
        /\ (KeyedMode /\ oldTree \in KeyedTrees) =>
               /\ Cardinality({i \in OpIdx : diffs[i].Type = DiffReorder})
                      = IF OutOfOrder(oldTree.Children, newTree.Children) THEN 1 ELSE 0
               /\ \A i \in OpIdx : diffs[i].Type = DiffReorder => diffs[i].Index = 0
        /\ (SameType /\ oldTree \in NestedTrees) =>
               \A c \in 1..MaxChildren + 1 :
                   Cardinality(ReordersAt(c - 1))
                       = IF /\ c <= Len(oldTree.Children)
                            /\ c <= Len(newTree.Children)
                            /\ oldTree.Children[c].Type = newTree.Children[c].Type
                            /\ OutOfOrder(oldTree.Children[c].Children, newTree.Children[c].Children)
                         THEN 1 ELSE 0
        /\ (oldTree.Children = KeyedTriple /\ newTree.Children = RotatedTriple) =>
               diffs = <<MkDiff(DiffReorder, NilRef, NilRef, 0, EmptyMap)>>

\* Diff has run on old children [A,B,C] against new children [C,A,B]
C3_Witness ==
    /\ Diffed
    /\ oldTree.Children = KeyedTriple
    /\ newTree.Children = RotatedTriple
    /\ Len(diffs) = 1

KeyedIdx(children) == {i \in 1..Len(children) : children[i].Key # ""}

KeysOf(children) == {children[i].Key : i \in KeyedIdx(children)}

\* operations of type t on the old child i / the new child j of the root
OnOld(t, i) == {x \in OpIdx : diffs[x].Type = t /\ diffs[x].OldNode = OldRef(<<i>>)}

OnNew(t, j) == {x \in OpIdx : diffs[x].Type = t /\ diffs[x].NewNode = NewRef(<<j>>)}

\* C4: with a key present, a keyed new child whose key occurs among the old
\* children is diffed against that old child and gets no Create/Remove; a
\* Create is emitted exactly for each keyed new child whose key is absent
\* from the old list, a Remove exactly for each keyed old child whose key is
\* absent from the new list.
C4_KeyedReconciliation ==
    (Diffed /\ KeyedMode) =>
        LET oc == oldTree.Children
            nc == newTree.Children
        IN  /\ \A j \in KeyedIdx(nc) :
                   IF nc[j].Key \in KeysOf(oc)
                   THEN \E i \in KeyedIdx(oc) :
                           /\ oc[i].Key = nc[j].Key
                           /\ OnNew(DiffCreate, j) = {}
                           /\ OnOld(DiffRemove, i) = {}
                           /\ IF oc[i].Type # nc[j].Type
                              THEN \E x \in OpIdx :
                                      diffs[x] = MkDiff(DiffReplace, OldRef(<<i>>), NewRef(<<j>>),
                                                        j - 1, EmptyMap)
                              ELSE OnNew(DiffReplace, j) = {}
                   ELSE /\ Cardinality(OnNew(DiffCreate, j)) = 1
                        /\ \A x \in OnNew(DiffCreate, j) : diffs[x].Index = j - 1
            /\ \A i \in KeyedIdx(oc) :
                   IF oc[i].Key \in KeysOf(nc)
                   THEN OnOld(DiffRemove, i) = {}
                   ELSE /\ Cardinality(OnOld(DiffRemove, i)) = 1
                        /\ \A x \in OnOld(DiffRemove, i) : diffs[x].Index = i - 1
            /\ \A x \in OpIdx :
                   /\ diffs[x].Type = DiffCreate =>
                          \E j \in KeyedIdx(nc) :
                              diffs[x].NewNode = NewRef(<<j>>) /\ nc[j].Key \notin KeysOf(oc)
                   /\ diffs[x].Type = DiffRemove =>
                          \E i \in KeyedIdx(oc) :
                              diffs[x].OldNode = OldRef(<<i>>) /\ oc[i].Key \notin KeysOf(nc)

\* one keyed child was matched with a type change, one created and one removed
C4_Witness ==
    /\ Diffed
    /\ KeyedMode
    /\ \E x, y, z \in OpIdx :
          /\ diffs[x].Type = DiffReplace
          /\ diffs[y].Type = DiffCreate
          /\ diffs[z].Type = DiffRemove

\* C5 (as claimed): with a key present every unkeyed child of the new list
\* yields a Create and every unkeyed child of the old list yields a Remove.
C5_UnkeyedAreNewOrRemoved ==
    (Diffed /\ KeyedMode) =>
        /\ \A j \in 1..Len(newTree.Children) :
               newTree.Children[j].Key = "" => OnNew(DiffCreate, j) # {}
        /\ \A i \in 1..Len(oldTree.Children) :
               oldTree.Children[i].Key = "" => OnOld(DiffRemove, i) # {}

\* the root's child lists carry no key on either side
UnkeyedMode == SameType /\ ~hasKeys(oldTree.Children) /\ ~hasKeys(newTree.Children)

\* operations that concern the pair of children at 0-based position i
OpsAt(i) ==
    {x \in OpIdx : \/ IsPrefix(<<i + 1>>, diffs[x].OldNode.path) /\ diffs[x].OldNode.tree = "old"
                   \/ IsPrefix(<<i + 1>>, diffs[x].NewNode.path) /\ diffs[x].NewNode.tree = "new"}

\* C6: with no key on either side the children are diffed pairwise by index
\* over max(len(old), len(new)): a Create per index only in new, a Remove per
\* index only in old, the per-node rules where both exist; [X,Y] -> [X,Y,Z]
\* yields exactly one Create for Z at index 2.
C6_UnkeyedFallback ==
    (Diffed /\ UnkeyedMode) =>
        LET oc == oldTree.Children
            nc == newTree.Children
        IN  /\ \A i \in 0..MaxChildren :
                   CASE i < Len(oc) /\ i < Len(nc) ->
                            /\ \A x \in OpsAt(i) :
                                   /\ diffs[x].Type \notin {DiffCreate, DiffRemove}
                                         \/ Len(diffs[x].OldNode.path) + Len(diffs[x].NewNode.path) > 1
                                   /\ diffs[x].OldNode.tree = "old" => Head(diffs[x].OldNode.path) = i + 1
                                   /\ diffs[x].NewNode.tree = "new" => Head(diffs[x].NewNode.path) = i + 1
                            /\ oc[i + 1].Type # nc[i + 1].Type =>
                                   \E x \in OpIdx :
                                       /\ OpsAt(i) = {x}
                                       /\ diffs[x] = MkDiff(DiffReplace, OldRef(<<i + 1>>),
                                                            NewRef(<<i + 1>>), i, EmptyMap)
                            /\ (oc[i + 1].Type = nc[i + 1].Type /\ oc[i + 1].Props # nc[i + 1].Props) =>
                                   \E x \in OpsAt(i) :
                                       /\ \A y \in OpsAt(i) : x <= y
                                       /\ diffs[x] = MkDiff(DiffUpdate, OldRef(<<i + 1>>), NewRef(<<i + 1>>), i,
                                                            ExpectedDelta(oc[i + 1].Props, nc[i + 1].Props))
                            /\ oc[i + 1] = nc[i + 1] => OpsAt(i) = {}
                     [] i < Len(nc) /\ i >= Len(oc) ->
                            \E x \in OpIdx :
                                /\ OpsAt(i) = {x}
                                /\ diffs[x] = MkDiff(DiffCreate, NilRef, NewRef(<<i + 1>>), i, EmptyMap)
                     [] i < Len(oc) /\ i >= Len(nc) ->
                            \E x \in OpIdx :
                                /\ OpsAt(i) = {x}
                                /\ diffs[x] = MkDiff(DiffRemove, OldRef(<<i + 1>>), NilRef, i, EmptyMap)
                     [] OTHER -> OpsAt(i) = {}
            /\ \A i, j \in 0..MaxChildren :
                   \A x \in OpsAt(i), y \in OpsAt(j) : x < y => i <= j
            /\ (Len(oc) = 2 /\ Len(nc) = 3 /\ SubSeq(nc, 1, 2) = oc /\ oldTree.Props = newTree.Props) =>
                   diffs = <<MkDiff(DiffCreate, NilRef, NewRef(<<3>>), 2, EmptyMap)>>

\* Diff has run on unkeyed children [X,Y] against [X,Y,Z]
C6_Witness ==
    /\ Diffed
    /\ UnkeyedMode
    /\ Len(oldTree.Children) = 2
    /\ Len(newTree.Children) = 3
    /\ SubSeq(newTree.Children, 1, 2) = oldTree.Children
    /\ Len(diffs) = 1

\* C9: a second call Diff(A, B) on the same inputs returns the same operation
\* sequence as the first, whatever happened in between.
C9_Determinism ==
    pc = "again" => (~panicked /\ diffs2 = diffs)

\* both calls have returned a sequence with an Update in it
C9_Witness ==
    /\ pc = "again"
    /\ \E i \in 1..Len(diffs2) : diffs2[i].Type = DiffUpdate /\ Cardinality(DOMAIN diffs2[i].Props) = 2

\* what the container shows after the initial mount or a patch
LiveTree == Observe(elems, Mount).Children

\* the live tree mirrors the committed tree until Patch runs
MountMirrorsOld ==
    pc # "patched" => LiveTree = IF IsNil(oldTree) THEN <<>> ELSE <<View(oldTree)>>

\* C1 (as claimed): after Patch(Diff(old, new)) on a live tree that mirrors
\* old, the live tree has the types, props and child order of new.
C1_RoundTrip ==
    pc = "patched" =>
        LiveTree = IF IsNil(newTree) THEN <<>> ELSE <<View(newTree)>>

\* what the element with handle h shows for prop name
Shown(h, name) ==
    IF name \in DOMAIN elems[h].attrs THEN <<elems[h].attrs[name]>>
    ELSE IF name \in DOMAIN elems[h].properties THEN <<elems[h].properties[name]>>
    ELSE <<>>

RECURSIVE Built(_, _)
\* the VNode node with pointer ref and every descendant carry a live handle
\* showing the type and every prop of its node, with the handles of the
\* children attached in child order
Built(ref, node) ==
    /\ ref \in jsElement
    /\ ref \in DOMAIN elems
    /\ elems[ref].tag = node.Type
    /\ \A name \in DOMAIN node.Props : Shown(ref, name) = <<node.Props[name]>>
    /\ elems[ref].children =
           [j \in 1..Len(node.Children) |-> [tree |-> ref.tree, path |-> Append(ref.path, j)]]
    /\ \A j \in 1..Len(node.Children) :
           Built([tree |-> ref.tree, path |-> Append(ref.path, j)], node.Children[j])

\* C29: after Patch applied Create(node, index), node and every descendant
\* carry a live handle with every prop set and the descendants attached in
\* child order, and the handle of node is the child at position index of a
\* live parent.
C29_CreateInserted ==
    pc = "patched" =>
        \A i \in 1..Len(diffs) :
            diffs[i].Type = DiffCreate =>
                LET ref == diffs[i].NewNode
                IN  /\ Built(ref, NodeAt(newTree, ref.path))
                    /\ \E parent \in DOMAIN elems :
                          /\ elems[ref].parent = parent
                          /\ diffs[i].Index < Len(elems[parent].children)
                          /\ elems[parent].children[diffs[i].Index + 1] = ref

\* C30: after Patch applied the Update(node, delta) that Diff produced for a
\* committed old node and its new node, the live node committed for that
\* position shows the new value of every changed prop of delta and no value
\* for every tombstoned prop of delta.
C30_UpdateApplied ==
    pc = "patched" =>
        \A i \in 1..Len(diffs) :
            diffs[i].Type = DiffUpdate =>
                /\ diffs[i].OldNode \in DOMAIN elems
                /\ \A name \in DOMAIN diffs[i].Props :
                      Shown(diffs[i].OldNode, name) =
                          IF diffs[i].Props[name] = Tombstone
                          THEN <<>>
                          ELSE <<diffs[i].Props[name]>>

\* the position of handle h among the children of the element with handle
\* parent, 0 if it is not one of them
PositionUnder(parent, h) ==
    IF \E q \in 1..Len(elems[parent].children) : elems[parent].children[q] = h
    THEN CHOOSE q \in 1..Len(elems[parent].children) : elems[parent].children[q] = h
    ELSE 0

\* C31: after Patch applied a Reorder for the root of a keyed child list, the
\* handles of the old children kept by the new list are still children of
\* the root's live node, in the order of the new list, and no element has
\* been created for the new nodes they were matched with.
C31_ReorderApplied ==
    (/\ pc = "patched"
     /\ KeyedMode
     /\ oldTree \in KeyedTrees
     /\ \E x \in OpIdx : diffs[x].Type = DiffReorder) =>
        LET oc == oldTree.Children
            nc == newTree.Children
            kept == {i \in KeyedIdx(oc) :
                        \E j \in KeyedIdx(nc) :
                            nc[j].Key = oc[i].Key /\ nc[j].Type = oc[i].Type}
            NewPos(i) == CHOOSE j \in KeyedIdx(nc) : nc[j].Key = oc[i].Key
            root == OldRef(<<>>)
        IN  /\ \A i \in kept :
                   /\ OldRef(<<i>>) \in DOMAIN elems
                   /\ PositionUnder(root, OldRef(<<i>>)) # 0
                   /\ NewRef(<<NewPos(i)>>) \notin jsElement
            /\ \A i1, i2 \in kept :
                   NewPos(i1) < NewPos(i2) =>
                       PositionUnder(root, OldRef(<<i1>>)) < PositionUnder(root, OldRef(<<i2>>))

\* C32: Diff never raises on the shape of its input, and Diff(nil, nil)
\* returns an empty operation list.
C32_DiffNeverRaises ==
    pc = "diffed" =>
        /\ ~panicked
        /\ (IsNil(oldTree) /\ IsNil(newTree)) => diffs = <<>>

\* the index of the last sibling of children that carries key k
LastWith(children, k) ==
    CHOOSE i \in 1..Len(children) :
        /\ children[i].Key = k
        /\ \A i2 \in 1..Len(children) : children[i2].Key = k => i2 <= i

\* C33: with duplicate keys among siblings Diff does not fail; every new
\* child whose key occurs among the old children is compared with the last
\* old sibling carrying the key (a Replace when the types differ, an Update
\* when the props differ, and no operation pairing it with another sibling);
\* a second call returns the same operation list.
C33_DuplicateKeys ==
    /\ pc \in {"diffed", "again"} =>
          /\ ~panicked
          /\ \A j \in 1..Len(newTree.Children) :
                LET new == newTree.Children[j]
                IN  new.Key \in KeysOf(oldTree.Children) =>
                      LET last == LastWith(oldTree.Children, new.Key)
                          old == oldTree.Children[last]
                      IN  /\ \A x \in OpIdx :
                                 (diffs[x].NewNode = NewRef(<<j>>)) =>
                                     /\ diffs[x].OldNode = OldRef(<<last>>)
                                     /\ diffs[x].Type \in {DiffReplace, DiffUpdate}
                          /\ old.Type # new.Type =>
                                 \E x \in OpIdx :
                                     diffs[x] = MkDiff(DiffReplace, OldRef(<<last>>),
                                                       NewRef(<<j>>), j - 1, EmptyMap)
                          /\ (old.Type = new.Type /\ old.Props # new.Props) =>
                                 \E x \in OpIdx :
                                     /\ diffs[x].Type = DiffUpdate
                                     /\ diffs[x].OldNode = OldRef(<<last>>)
                                     /\ diffs[x].NewNode = NewRef(<<j>>)
                          /\ (old.Type = new.Type /\ old.Props = new.Props) =>
                                 \A x \in OpIdx : diffs[x].NewNode # NewRef(<<j>>)
    /\ pc = "again" => diffs2 = diffs

\* Diff has run twice on an old list with the key "a" on a span and then on
\* a div, against a new list with two spans of key "a"
C33_Witness ==
    /\ pc = "again"
    /\ oldTree.Children = <<Leaf("span", "a"), Leaf("div", "a")>>
    /\ newTree.Children = <<Leaf("span", "a"), Leaf("span", "a")>>
    /\ Len(diffs) = 2
    /\ diffs[1].Type = DiffReplace
    /\ diffs[2].Type = DiffReplace

\* C34: a failure of the render/patch step of one scheduled entry is
\* confined to that entry: a flush, whatever the outcome of its render
\* steps, ends only when no pending entry is left in the queue, and it ends
\* with the scheduler un-armed.
C34_FailureConfined ==
    [][(flushPc \in {"loop", "render"} /\ flushPc' \notin {"loop", "render"}) =>
           (UpdateQueue' = <<>> /\ ~IsScheduled')]_vars

\* C35: CallFunction succeeds only for keys that were registered; a call of
\* an unregistered key returns the not-found error, invokes no function and
\* leaves the registry as it was; a registered function that returns a
\* non-nil error yields an error result; ListFunctions("") returns exactly
\* one entry per distinct registered key.
C35_RegistryCalls ==
    /\ result.op = "CallFunction" =>
          /\ result.err = NilError => result.key \in registered
          /\ result.key \notin registered =>
                /\ result.err = <<"function not found">>
                /\ ~result.invoked
          /\ functions = result.before
          /\ (result.invoked /\ \E i \in 1..Len(result.returned) :
                                   result.returned[i] = <<"error">>) =>
                result.err # NilError
    /\ (result.op = "ListFunctions" /\ result.key = "") =>
          /\ Len(result.list) = Cardinality(registered)
          /\ \A k \in registered :
                \E i \in 1..Len(result.list) :
                    Key(result.list[i].ServiceName, result.list[i].Name) = k

\* C36: the unsubscribe function returned by Subscribe removes the observer
\* it was returned for and no other: whenever the closure of subscription s
\* runs, the observers registered afterwards are those registered before
\* without s, also when an earlier subscription was unsubscribed first and
\* when the closure runs a second time.
C36_UnsubscribeOwn ==
    [][\A c \in Contexts : \A s \in 1..Len(subIndex) :
           Unsubscribe(c, s) =>
               {observers'[i] : i \in 1..Len(observers')} =
                   {observers[i] : i \in 1..Len(observers)} \ {s}]_vars

\* C37: every store notification delivers a (newState, oldState) pair of a
\* single dispatch: newState is the result of the slice's reducer on
\* oldState for the action of the Dispatch that makes the call, also when a
\* subscriber has dispatched between that Dispatch's state write and the call.
C37_NotificationPair ==
    \A n \in 1..Len(storeFrames) :
        \A d \in 1..Len(storeFrames[n].delivered) :
            LET f == storeFrames[n]
                call == f.delivered[d]
            IN  call.key \in DOMAIN storeReducers =>
                    /\ call.old # <<>>
                    /\ call.new = <<Reduce(storeReducers[call.key], call.old[1],
                                           f.reached[1])>>

\* C39: every Schedule(node, priority) call is followed by a render
\* invocation for node once the host runs the requested callback, also for a
\* node an earlier flush rendered and marked clean: whenever the queue is not
\* empty outside a flush a callback is requested, and a flush that takes an
\* entry from the queue makes a render invocation for its node unless it
\* has made one already (the entries of one node scheduled before the flush
\* share a render invocation).
C39_ScheduledIsRendered ==
    /\ []((flushPc = "idle" /\ UpdateQueue # <<>>) => (IsScheduled /\ slots # <<>>))
    /\ [][(flushPc = "loop" /\ UpdateQueue # <<>> /\ UpdateQueue' = Tail(UpdateQueue)) =>
              \/ (flushPc' = "render" /\ current' = Head(UpdateQueue))
              \/ \E i \in 1..Len(rendered) : rendered[i] = Head(UpdateQueue)]_vars

\* C40: within one Dispatch each middleware runs at most once and the
\* reducers are applied at most once (the registered reducers are reached by
\* at most one action), even if a middleware calls next more than once.
C40_AtMostOnce ==
    \A d \in 1..Len(storeFrames) :
        LET f == storeFrames[d]
        IN  /\ \A i, j \in 1..Len(f.chain) :
                   f.chain[i].stage = f.chain[j].stage => i = j
            /\ storeReducers # <<>> => Len(f.reached) <= 1

(***************************************************************************)
(* Properties of Observable                                                *)
(***************************************************************************)
Range(q) == {q[i] : i \in 1..Len(q)}

RECURSIVE Deliveries(_, _)
\* the <<new, old>> pairs of the first n calls that subscription s was registered for
Deliveries(s, n) ==
    IF n = 0 THEN <<>>
    ELSE IF s \in Range(calls[n].subs)
         THEN Append(Deliveries(s, n - 1), <<calls[n].new, calls[n].old>>)
         ELSE Deliveries(s, n - 1)

\* C10: for Set/Update calls issued one after another every subscriber
\* registered before a call is invoked exactly once per call, in call order,
\* with (new, old) where old is the value held immediately before the call;
\* initial 0, Set(1), Set(2) delivers exactly (old 0, new 1), (old 1, new 2).
C10_ObservableOrdering ==
    /\ \A k \in 1..Len(calls) :
           calls[k].old = IF k = 1 THEN 0 ELSE calls[k - 1].new
    /\ obsValue = IF calls = <<>> THEN 0 ELSE calls[Len(calls)].new
    /\ \A s \in 1..Len(seen) :
           IF Idle("main")
           THEN seen[s] = Deliveries(s, Len(calls))
           ELSE seen[s] = Deliveries(s, IF /\ s \in Range(Top("main").observers)
                                           /\ \E i \in 1..(Top("main").next - 1) :
                                                  Top("main").observers[i] = s
                                        THEN Len(calls) ELSE Len(calls) - 1)

\* a subscriber of an Observable(0) has seen Set(1) and Set(2), both calls returned
C10_Witness ==
    /\ Idle("main")
    /\ Len(calls) = 2
    /\ calls[1].new = 1
    /\ calls[2].new = 2
    /\ Len(seen) >= 1
    /\ seen[1] = << <<1, 0>>, <<2, 1>> >>

\* the calls whose notification loop has not returned yet
InFlight == UNION {{frames[c][i].id : i \in 1..Len(frames[c])} : c \in Contexts}

\* C11: a Set/Update invokes exactly the subscribers that were registered when
\* the value was written, in subscription order; subscribers added or removed
\* while the pass is running do not change which subscribers the pass invokes.
C11_CopyBeforeNotify ==
    \A k \in 1..Len(calls) :
        /\ IsPrefix(calls[k].invoked, calls[k].subs)
        /\ k \notin InFlight => calls[k].invoked = calls[k].subs

\* a pass over two subscribers has invoked both of them although the list of
\* subscribers was changed by a callback while the pass was running
C11_Witness ==
    /\ Len(frames["main"]) = 1
    /\ Len(calls[Top("main").id].subs) = 2
    /\ calls[Top("main").id].invoked = calls[Top("main").id].subs
    /\ observers # calls[Top("main").id].subs
    /\ Len(calls) = 1

\* C12: a Set issued from inside a subscriber callback is its own pass, started
\* only after the outer pass has invoked all of its subscribers: no inner pass
\* has delivered a notification while an outer pass still has one to invoke.
C12_NoNestedPass ==
    \A c \in Contexts :
        \A i \in 2..Len(frames[c]) :
            frames[c][i].next > 1 =>
                \A j \in 1..(i - 1) : frames[c][j].next > Len(frames[c][j].observers)

\* C13: no user-supplied callback is invoked while the mutex of the Observable
\* is held: the Update function of a context never runs while that context
\* holds the mutex, so its call of Get never waits for its own caller.
C13_NoCallbackUnderLock ==
    \A c \in Contexts :
        critical[c].fn # NoFn => mutex # c /\ ~critical[c].waiting

\* C14: Set/Update calls made concurrently by several contexts are serialized:
\* each call's old value is the previous call's new value, starting at the
\* initial value 0, and k calls of Update(x -> x+1) leave the value at 0 + k.
C14_Serialized ==
    /\ \A k \in 1..Len(calls) :
           calls[k].old = IF k = 1 THEN 0 ELSE calls[k - 1].new
    /\ (InUpdate = {} /\ \A k \in 1..Len(calls) : calls[k].op = "inc") =>
           obsValue = 0 + Len(calls)

\* both contexts called Update(x -> x+1), the second while the notification
\* loop of the first was still running; the value is 2
C14_Witness ==
    /\ Len(calls) = 2
    /\ \A k \in 1..2 : calls[k].op = "inc"
    /\ ~Idle("main")
    /\ ~Idle("worker")
    /\ obsValue = 2

\* C38: when Set/Update calls of several contexts race, each subscriber
\* receives the notifications in the order in which the values were written
\* (of two notifications it received, the earlier one belongs to the earlier
\* write), and once all calls have returned the last notification received
\* by a subscriber of the last write carries the value Get() returns.
C38_NotificationOrder ==
    \A s \in 1..Len(seen) :
        /\ \A i, j \in 1..Len(seen[s]) :
               i < j =>
                   \E k1, k2 \in 1..Len(calls) :
                       /\ k1 < k2
                       /\ seen[s][i] = <<calls[k1].new, calls[k1].old>>
                       /\ seen[s][j] = <<calls[k2].new, calls[k2].old>>
        /\ (/\ \A c \in Contexts : Idle(c)
            /\ InUpdate = {}
            /\ calls # <<>>
            /\ s \in Range(calls[Len(calls)].subs)) =>
               /\ seen[s] # <<>>
               /\ seen[s][Len(seen[s])][1] = obsValue

(***************************************************************************)
(* Properties of the Scheduler                                             *)
(***************************************************************************)
\* the number of entries of queue q that are node n
Count(n, q) == Cardinality({i \in 1..Len(q) : q[i] = n})

\* ImmediatePriority is the highest priority, IdlePriority the lowest
Highest(ps) == CHOOSE p \in ps : \A q \in ps : p <= q

\* C15: a node scheduled two or more times before a flush is rendered exactly
\* once by that flush.
C15_Coalescing ==
    flushPc = "idle" =>
        \A n \in Nodes : Count(n, pendingAtStart) >= 2 => Count(n, rendered) = 1

\* C16: after Schedule calls without an intervening flush the queue holds each
\* node at most once and the priority kept is the highest one of those calls.
C16_EnqueueIdempotent ==
    flushPc = "idle" =>
        /\ \A n \in Nodes : Count(n, UpdateQueue) <= 1
        /\ UpdateQueue # <<>> => Priority = Highest(seenPriorities)

\* C17: at most one callback is outstanding with the host; nodes pending
\* outside a flush have exactly one, requested by the first Schedule onto the
\* empty queue: requestIdleCallback for Low and Idle, requestAnimationFrame for
\* Normal, UserBlocking and Immediate.
C17_OneDeferredFlush ==
    /\ Len(slots) <= 1
    /\ flushPc = "idle" =>
           Len(slots) = IF UpdateQueue = <<>> THEN 0 ELSE 1
    /\ \A i \in 1..Len(slots) :
           /\ slots[i].priority \in {LowPriority, IdlePriority} =>
                  slots[i].fn = "requestIdleCallback"
           /\ slots[i].priority \in {NormalPriority, UserBlockingPriority, ImmediatePriority} =>
                  slots[i].fn = "requestAnimationFrame"

\* Schedule(n1, Idle) armed the idle slot, two further Schedule calls of higher
\* priority requested nothing
C17_Witness ==
    /\ Len(UpdateQueue) = 3
    /\ Len(slots) = 1
    /\ slots[1].fn = "requestIdleCallback"
    /\ slots[1].priority = IdlePriority
    /\ Priority = ImmediatePriority

\* C19: a flush processes every entry that was pending when it began (the node
\* is rendered and clean), and when it has ended the queue is empty and the
\* scheduler un-armed until the next Schedule, which arms a new flush.
C19_FlushDrains ==
    flushPc = "idle" =>
        /\ \A i \in 1..Len(pendingAtStart) :
               /\ Count(pendingAtStart[i], rendered) >= 1
               /\ ~IsDirty[pendingAtStart[i]]
        /\ ~IsScheduled => UpdateQueue = <<>>
        /\ IsScheduled => Len(slots) = 1

\* C20: a node scheduled while a flush is executing is not processed by that
\* flush: the flush takes no more entries than were pending when it began, and
\* after it the node is pending with a callback requested for the next flush.
C20_LateDeferred ==
    /\ popped <= Len(pendingAtStart)
    /\ (flushPc = "idle" /\ late # <<>>) =>
           /\ \A i \in 1..Len(late) : Count(late[i], UpdateQueue) >= 1
           /\ slots # <<>>

\* C21: a flush makes no more render invocations than there were entries
\* pending when it started, even if render invocations schedule nodes.
C21_BoundedFlush ==
    Len(rendered) <= Len(pendingAtStart)

\* C22: Schedule calls of two execution contexts never lose an enqueued node,
\* never arm more than one flush, and never leave a pending node without an
\* armed flush.
C22_SchedulerCriticalSection ==
    /\ \A n \in Nodes : Count(n, accepted) <= Count(n, UpdateQueue)
    /\ Len(slots) <= 1
    /\ (/\ flushPc = "idle"
        /\ \A c \in Contexts : inSchedule[c].pc = "idle"
        /\ UpdateQueue # <<>>) => Len(slots) = 1

(***************************************************************************)
(* Properties of Component                                                 *)
(***************************************************************************)
\* C18: no render function runs synchronously inside Set / Update: the only
\* calls of the render function made on the stack of an API call are those of
\* Mount.
C18_NoSynchronousRender ==
    \A i \in 1..Len(renders) : renders[i] = "Mount"

(***************************************************************************)
(* Properties of Store                                                     *)
(***************************************************************************)
\* C23: Dispatch calls the middleware in registration order, each with the
\* action the previous one gave to next; the reducers run only after the last
\* middleware called next, with the action it gave; if a middleware returns
\* without calling next, no reducer runs, no slice changes and no subscriber
\* is notified.
C23_MiddlewareChain ==
    \A d \in 1..Len(storeFrames) :
        LET f == storeFrames[d]
            n == Len(f.chain)
            stopped == \E i \in 1..n : ~CallsNext(f.chain[i].middleware, f.chain[i].action)
        IN  /\ n <= Len(storeMiddleware)
            /\ \A i \in 1..n : /\ f.chain[i].stage = i
                               /\ f.chain[i].middleware = storeMiddleware[i]
            /\ n >= 1 => f.chain[1].action = f.action
            /\ storeMiddleware # <<>> => n >= 1
            /\ \A i \in 1..(n - 1) :
                  /\ CallsNext(f.chain[i].middleware, f.chain[i].action)
                  /\ f.chain[i + 1].action = Passed(f.chain[i].middleware, f.chain[i].action)
            /\ f.reached # <<>> =>
                  /\ n = Len(storeMiddleware)
                  /\ ~stopped
                  /\ f.reached[1] = IF n = 0 THEN f.action
                                    ELSE Passed(f.chain[n].middleware, f.chain[n].action)
                  /\ \A call \in f.calls : call.action = f.reached[1]
            /\ ~stopped => f.reached # <<>>
            /\ stopped => /\ f.reached = <<>>
                          /\ f.calls = {}
                          /\ storeState = f.oldState
                          /\ f.delivered = <<>>
                          /\ f.order = <<>>

\* a Dispatch whose first middleware changed the action and whose second
\* middleware did not call next, on a store with a reducer and a subscriber
C23_Witness ==
    /\ storeFrames # <<>>
    /\ Len(StoreTop.chain) = 2
    /\ StoreTop.chain[1].middleware = "bump"
    /\ StoreTop.chain[2].middleware = "block"
    /\ StoreTop.chain[2].action.Payload = 2
    /\ StoreTop.reached = <<>>
    /\ DOMAIN storeReducers # {}
    /\ \E key \in DOMAIN storeObservers : storeObservers[key] # <<>>

\* C24: during a Dispatch the reducer of slice k is called once, with the
\* state of slice k, and its result is stored in slice k only: after the
\* reducers ran every registered slice j holds reducer_j(previous state of j,
\* action) and no other key has appeared.
C24_StoreIsolation ==
    \A d \in 1..Len(storeFrames) :
        LET f == storeFrames[d]
        IN  f.reached # <<>> =>
              /\ {call.key : call \in f.calls} = DOMAIN storeReducers
              /\ Cardinality(f.calls) = Cardinality(DOMAIN storeReducers)
              /\ \A call \in f.calls : call.state = f.oldState[call.key]
              /\ DOMAIN storeState = DOMAIN f.oldState
              /\ \A j \in DOMAIN storeReducers :
                    storeState[j] = Reduce(storeReducers[j], f.oldState[j], f.reached[1])

\* a Dispatch that reached the reducers of two slices holding different states
C24_Witness ==
    /\ storeFrames # <<>>
    /\ StoreTop.reached # <<>>
    /\ DOMAIN storeReducers = SliceKeys
    /\ storeReducers["a"] # storeReducers["b"]
    /\ StoreTop.oldState["a"] # StoreTop.oldState["b"]
    /\ storeState["a"] # StoreTop.oldState["a"]
    /\ storeState["b"] # StoreTop.oldState["b"]

\* C25: a Dispatch on a store where a key has no reducer completes, leaves
\* GetState of that key as it was, calls no reducer for it, and applies the
\* reducers of the registered slices.
C25_NoReducerNoOp ==
    \A d \in 1..Len(storeFrames) :
        LET f == storeFrames[d]
        IN  f.reached # <<>> =>
              /\ \A key \in SliceKeys \ DOMAIN storeReducers :
                    /\ GetState(key) = OldStateValue(f, key)
                    /\ GetState(key) = <<>>
                    /\ \A call \in f.calls : call.key # key
              /\ \A j \in DOMAIN storeReducers :
                    GetState(j) = <<Reduce(storeReducers[j], f.oldState[j], f.reached[1])>>

\* a Dispatch that has returned from its notification loop on a store where
\* slice "a" only has a subscriber and slice "b" has a reducer
C25_Witness ==
    /\ storeFrames # <<>>
    /\ StoreTop.reached # <<>>
    /\ StoreTop.k > Len(StoreTop.order)
    /\ DOMAIN storeReducers = {"b"}
    /\ "a" \in DOMAIN storeObservers
    /\ \E i \in 1..Len(StoreTop.delivered) : StoreTop.delivered[i].key = "a"
    /\ storeState["b"] # StoreTop.oldState["b"]

\* the calls of observers a Dispatch owes from key k of its order on: every
\* observer of the lists copied under the lock, once, with the state its
\* reducers stored and the state before
RECURSIVE Owed(_, _)
Owed(f, k) ==
    IF k > Len(f.order) THEN <<>>
    ELSE LET key == f.order[k]
             obs == f.observersToNotify[key]
             new == IF key \in DOMAIN storeReducers
                    THEN <<Reduce(storeReducers[key], f.oldState[key], f.reached[1])>>
                    ELSE <<>>
         IN  [i \in 1..Len(obs) |->
                 [key |-> key, sub |-> obs[i], new |-> new, old |-> OldStateValue(f, key)]]
             \o Owed(f, k + 1)

\* a call of an observer without the subscriber list recorded with it
CallOf(e) == [key |-> e.key, sub |-> e.sub, new |-> e.new, old |-> e.old]

\* C26: after the reducers of a Dispatch ran, every subscriber in the lists
\* copied inside the critical section is called exactly once with (newState,
\* oldState) of its slice; subscribing or unsubscribing during the
\* notification does not change the calls of that Dispatch.
C26_SnapshotNotify ==
    \A d \in 1..Len(storeFrames) :
        LET f == storeFrames[d]
            owed == Owed(f, 1)
        IN  f.reached # <<>> =>
              /\ {f.order[k] : k \in 1..Len(f.order)} =
                     {key \in DOMAIN f.observersToNotify : f.observersToNotify[key] # <<>>}
              /\ Len(f.delivered) <= Len(owed)
              /\ \A i \in 1..Len(f.delivered) : CallOf(f.delivered[i]) = owed[i]
              /\ f.k > Len(f.order) => Len(f.delivered) = Len(owed)

\* a Dispatch whose notification loop is over, during which a subscriber was
\* called after it had been unsubscribed, and a subscriber added during the
\* loop was not called
C26_Witness ==
    /\ storeFrames # <<>>
    /\ StoreTop.reached # <<>>
    /\ StoreTop.k > Len(StoreTop.order)
    /\ \E i \in 1..Len(StoreTop.delivered) :
          LET e == StoreTop.delivered[i]
          IN  /\ \A j \in 1..Len(e.live) : e.live[j] # e.sub
              /\ e.new # e.old
    /\ \E key \in DOMAIN storeObservers : \E j \in 1..Len(storeObservers[key]) :
          /\ key \in DOMAIN StoreTop.observersToNotify
          /\ \A i \in 1..Len(StoreTop.observersToNotify[key]) :
                StoreTop.observersToNotify[key][i] # storeObservers[key][j]
          /\ \A i \in 1..Len(StoreTop.delivered) :
                StoreTop.delivered[i].sub # storeObservers[key][j]

\* C27: a Dispatch that reaches the reducers calls the subscribers a slice
\* had when it began also when the reducer of the slice returned a state
\* equal to the one before: by the end of the notification loop each of them
\* was called with that state as new and old state.
C27_NoEqualitySuppression ==
    \A d \in 1..Len(storeFrames) :
        LET f == storeFrames[d]
        IN  (f.reached # <<>> /\ f.k > Len(f.order)) =>
              \A key \in DOMAIN storeReducers :
                  Reduce(storeReducers[key], f.oldState[key], f.reached[1]) = f.oldState[key]
                  => \A s \in 1..f.subscribed :
                        storeSubs[s].key = key
                        => \E i \in 1..Len(f.delivered) :
                              /\ f.delivered[i].key = key
                              /\ f.delivered[i].sub = s
                              /\ f.delivered[i].new = <<f.oldState[key]>>
                              /\ f.delivered[i].old = <<f.oldState[key]>>

\* a Dispatch of a "noop" action whose notification loop is over, on a store
\* whose slice "a" has the reducer "add" and a subscriber
C27_Witness ==
    /\ storeFrames # <<>>
    /\ StoreTop.reached # <<>>
    /\ StoreTop.reached[1].Type = "noop"
    /\ StoreTop.k > Len(StoreTop.order)
    /\ "a" \in DOMAIN storeReducers
    /\ storeReducers["a"] = "add"
    /\ storeState["a"] = StoreTop.oldState["a"]
    /\ \E i \in 1..Len(StoreTop.delivered) :
          /\ StoreTop.delivered[i].key = "a"
          /\ StoreTop.delivered[i].new = StoreTop.delivered[i].old

(***************************************************************************)
(* Properties of Computed                                                  *)
(***************************************************************************)
\* C28: once the Set or Dispatch calls on the dependency of a Computed have
\* returned, Get returns computeFn over the current value of the dependency,
\* and an observer of the Computed has last been told that value.
C28_ComputedRecomputed ==
    (computed.dep # "none" /\ Idle("main") /\ StoreIdle) =>
        /\ computed.value = computeFn(computed.dep)
        /\ computed.observers > 0 =>
              computeFn(computed.dep) = IF computed.seen = <<>>
                                        THEN computed.subscribedAt
                                        ELSE computed.seen[Len(computed.seen)][1]

====
